---- MODULE Spec2Model ----
(***************************************************************************)
(* State-machine model of mas-socket: the server endpoint                  *)
(* (src/src/server.ts, class MasSocketServer).                             *)
(*                                                                         *)
(* Peer ids and correlation ids are randomUUID() values in the code; the   *)
(* model draws them from counters, which keeps them fresh.  A transport    *)
(* socket is identified with the peer id it was accepted under.            *)
(***************************************************************************)
EXTENDS Integers, Sequences, FiniteSets, TLC

\* ---------------------------------------------------------------- bounds
MaxClients == 2          \* connections accepted in one behaviour
MaxFetchIds == 2         \* correlation ids generated in one behaviour
MaxSteps == 5            \* steps of one behaviour of the whole server (Spec)
MaxCallbacks == 3        \* middlewares and handlers registered in one behaviour
MaxSockets == 3          \* sockets the client creates in one behaviour
MaxReconnect == 2        \* largest maxReconnectCount the application configures
MaxClientSteps == 10     \* steps of one behaviour of the client's connection machine
MaxRequestSteps == 5     \* application and transport steps of one behaviour with deadlines
MaxOverlapSteps == 6     \* steps of one behaviour with two envelopes in flight

\* ------------------------------------------------------ program constants
DefaultMaxWait == 10000
DefaultCode == 200

ClientIds == 1..MaxClients
FetchIds == 1..MaxFetchIds
GroupNames == {"g1", "g2"}
MaxWaits == {DefaultMaxWait, 500}      \* the default and one per-call override
Bodies == {"r1", "r2"}                 \* bodies a peer may put in a Reply
NoFetchId == 0                         \* fetchId = '' (absent)

VARIABLES
    clients,               \* MasSocketServer.clients: id -> connection.user.groups
                           \* (an array); its keys are the live set
    wsState,               \* ws.readyState of each accepted socket
    groups,                \* MasSocketServer._groups: name -> member set
    pendingFetches,        \* fetchId -> PendingFetch
    clientPendingFetches,  \* reverse index: clientId -> set of fetchIds
    timers,                \* armed setTimeout handles of fetch, by fetchId
    promise,               \* the per-target promise created for each fetchId
    calls,                 \* fetch() invocations still referenced by a PendingFetch
                           \* or settled through one, keyed by their first fetchId
    ret,                   \* what the last fetch() invocation returned
    sent,                  \* envelopes handed to ws.send during the last step
    nextClientId,          \* next fresh peer id
    nextFetchId,           \* next fresh correlation id
    thrown,                \* error thrown out of the last API call, or "none"
    connectCalls,          \* onConnect invocations, per peer
    disconnectCalls,       \* onDisconnect invocations (reason tags), per peer
    last,                  \* the operation performed by the last step
    steps,                 \* number of steps taken (counted under the bounded specifications)
    endpoint,              \* the endpoint whose registrations and pipeline are followed
    middlewares,           \* its this.middlewares
    eventHandlers,         \* its this.eventHandlers: event name -> array of handlers
    run,                   \* its handleMessage invocation for the last Event envelope
    earlier,               \* a handleMessage invocation for an earlier Event envelope
                           \* that is still awaiting a callback
    clientReady,           \* client: this.ws is set and its readyState is OPEN
    rejection,             \* error the promise of the last handleMessage rejected
                           \* with (caught and logged by the message listener)
    client,                \* the MasSocketClinet object, its sockets and its timers
    attempts               \* bookkeeping: what became of the client's connection attempts

vars == <<clients, wsState, groups, pendingFetches,
          clientPendingFetches, timers, promise, calls, ret, sent, nextClientId,
          nextFetchId, thrown, connectCalls, disconnectCalls, last, steps,
          endpoint, middlewares, eventHandlers, run, earlier, clientReady, rejection,
          client, attempts>>

\* ------------------------------------------------------------- map helpers
EmptyMap == [x \in {} |-> x]
MapPut(m, k, v) == [x \in DOMAIN m \cup {k} |-> IF x = k THEN v ELSE m[x]]
MapDel(m, k) == [x \in DOMAIN m \ {k} |-> m[x]]
SetMin(S) == CHOOSE x \in S : \A y \in S : x <= y
SeqRange(q) == {q[i] : i \in 1..Len(q)}
SeqRemoveAt(q, i) == [j \in 1..(Len(q) - 1) |-> IF j < i THEN q[j] ELSE q[j + 1]]
IndexOf(q, x) == IF x \in SeqRange(q) THEN SetMin({i \in 1..Len(q) : q[i] = x}) ELSE 0

\* ret when the last step was not a fetch() invocation.
NoCall == [ids |-> <<>>, hasReply |-> FALSE, maxWait |-> 0, slots |-> <<>>,
           result |-> [st |-> "none", err |-> "none", arg |-> 0, shape |-> "none", value |-> <<>>]]

\* The mutable server state as one value, so that the methods compose the
\* way they call each other in the source.
Cur == [clients |-> clients, wsState |-> wsState,
        groups |-> groups, pendingFetches |-> pendingFetches,
        clientPendingFetches |-> clientPendingFetches, timers |-> timers,
        promise |-> promise, calls |-> calls, ret |-> NoCall, sent |-> <<>>,
        nextFetchId |-> nextFetchId, thrown |-> "none",
        middlewares |-> middlewares, eventHandlers |-> eventHandlers, run |-> run,
        earlier |-> earlier,
        clientReady |-> clientReady, rejection |-> "none", exc |-> "none"]

Install(s) ==
    /\ clients' = s.clients
    /\ wsState' = s.wsState
    /\ groups' = s.groups
    /\ pendingFetches' = s.pendingFetches
    /\ clientPendingFetches' = s.clientPendingFetches
    /\ timers' = s.timers
    /\ promise' = s.promise
    /\ calls' = s.calls
    /\ ret' = s.ret
    /\ sent' = s.sent
    /\ nextFetchId' = s.nextFetchId
    /\ thrown' = s.thrown
    /\ middlewares' = s.middlewares
    /\ eventHandlers' = s.eventHandlers
    /\ run' = s.run
    /\ earlier' = s.earlier
    /\ clientReady' = s.clientReady
    /\ rejection' = s.rejection
    /\ endpoint' = endpoint
    /\ client' = client
    /\ attempts' = attempts


\* ------------------------------------------------------------- promises
\* A per-target promise: st is "none" (id not yet generated), "pending",
\* "resolved" or "rejected"; n counts the invocations of its resolve/reject
\* continuations; call is the fetch() invocation that created it.
NoPromise == [st |-> "none", err |-> "none", arg |-> 0, body |-> "", n |-> 0, call |-> 0]
Resolved(body) == [st |-> "resolved", err |-> "none", arg |-> 0, body |-> body]
Rejected(err, arg) == [st |-> "rejected", err |-> err, arg |-> arg, body |-> ""]

\* Outcome of the promise pushed for one target: Promise.reject('not found')
\* for an unknown id (fid = 0), the registered promise otherwise.
SlotOutcome(s, slot) ==
    IF slot.fid = NoFetchId
    THEN Rejected("not found", slot.id)
    ELSE [st |-> s.promise[slot.fid].st, err |-> s.promise[slot.fid].err,
          arg |-> s.promise[slot.fid].arg, body |-> s.promise[slot.fid].body]

PendingResult == [st |-> "pending", err |-> "none", arg |-> 0, shape |-> "none", value |-> <<>>]

\* Promise.all(promises): rejects with the first rejection, fulfils with the
\* ordered list once every input is fulfilled.
PromiseAll(outs) ==
    LET bad == {i \in 1..Len(outs) : outs[i].st = "rejected"} IN
    IF bad # {}
    THEN [st |-> "rejected", err |-> outs[SetMin(bad)].err, arg |-> outs[SetMin(bad)].arg,
          shape |-> "none", value |-> <<>>]
    ELSE IF \A i \in 1..Len(outs) : outs[i].st = "resolved"
    THEN [st |-> "resolved", err |-> "none", arg |-> 0, shape |-> "list",
          value |-> [i \in 1..Len(outs) |-> outs[i].body]]
    ELSE PendingResult

\* Variant: the single-promise shortcut is missing.
FetchResult_AlwaysAll(outs) == PromiseAll(outs)

\* What fetch() returns for hasReply = true: promises[0] itself when there is
\* exactly one promise, Promise.all(promises) otherwise.
FetchResult(outs) ==
    IF Len(outs) = 1
    THEN IF outs[1].st = "pending" THEN PendingResult
         ELSE [st |-> outs[1].st, err |-> outs[1].err, arg |-> outs[1].arg,
               shape |-> IF outs[1].st = "resolved" THEN "single" ELSE "none",
               value |-> IF outs[1].st = "resolved" THEN <<outs[1].body>> ELSE <<>>]
    ELSE PromiseAll(outs)

\* A settled overall promise never changes again.
Propagate(s, k) ==
    LET c == s.calls[k]
        outs == [i \in 1..Len(c.slots) |-> SlotOutcome(s, c.slots[i])]
    IN  IF c.result.st # "pending" THEN s
        ELSE [s EXCEPT !.calls[k].result = FetchResult(outs)]

\* resolve(value) / reject(reason) of the promise created for fetchId f.
Settle(s, f, out) ==
    LET p == s.promise[f] IN
    IF p.st = "pending"
    THEN Propagate([s EXCEPT !.promise[f] =
                        [st |-> out.st, err |-> out.err, arg |-> out.arg,
                         body |-> out.body, n |-> p.n + 1, call |-> p.call]],
                   p.call)
    ELSE [s EXCEPT !.promise[f].n = p.n + 1]

\* ------------------------------------------------------------- transport
Envelope(to, type, event, fetchId, code, data) ==
    [to |-> to, type |-> type, event |-> event, fetchId |-> fetchId,
     code |-> code, data |-> data]

\* Variant: the readyState guard is missing.
sendMessage_Unguarded(s, c, message) == [s EXCEPT !.sent = Append(@, message)]

sendMessage(s, c, message) ==
    IF s.wsState[c] = "open" THEN [s EXCEPT !.sent = Append(@, message)] ELSE s

\* ws.close(): starts the closing handshake of an open socket.
wsClose(s, c) ==
    IF s.wsState[c] = "open" THEN [s EXCEPT !.wsState[c] = "closing"] ELSE s

\* ------------------------------------------------------------- teardown
\* The loop over the peer's reverse-index set, in insertion order.
RECURSIVE RejectPending(_, _)
RejectPending(s, ids) ==
    IF ids = {} THEN s
    ELSE LET f == SetMin(ids)
             s1 == IF f \in DOMAIN s.pendingFetches
                   THEN LET s0 == Settle([s EXCEPT !.timers = MapDel(@, f)], f,
                                         Rejected("disconnected", 0))
                        IN [s0 EXCEPT !.pendingFetches = MapDel(@, f)]
                   ELSE s
         IN RejectPending(s1, ids \ {f})

RECURSIVE DropFromGroups(_, _, _, _)
DropFromGroups(s, clientId, glist, i) ==
    IF i > Len(glist) THEN s
    ELSE LET g == glist[i]
             s1 == IF g \in DOMAIN s.groups
                   THEN IF s.groups[g] \ {clientId} = {}
                        THEN [s EXCEPT !.groups = MapDel(@, g)]
                        ELSE [s EXCEPT !.groups[g] = @ \ {clientId}]
                   ELSE s
         IN DropFromGroups(s1, clientId, glist, i + 1)

\* Variant: the peer's pending requests are left alone.
cleanupClient_KeepPending(s, clientId) ==
    IF clientId \notin DOMAIN s.clients THEN s
    ELSE LET s2 == DropFromGroups(s, clientId, s.clients[clientId], 1)
         IN [s2 EXCEPT !.clients = MapDel(@, clientId)]

\* Variant: the peer is not taken out of its groups.
cleanupClient_KeepGroups(s, clientId) ==
    IF clientId \notin DOMAIN s.clients THEN s
    ELSE LET s1 == IF clientId \in DOMAIN s.clientPendingFetches
                   THEN [RejectPending(s, s.clientPendingFetches[clientId])
                            EXCEPT !.clientPendingFetches = MapDel(@, clientId)]
                   ELSE s
         IN [s1 EXCEPT !.clients = MapDel(@, clientId)]

cleanupClient(s, clientId) ==
    IF clientId \notin DOMAIN s.clients THEN s
    ELSE LET s1 == IF clientId \in DOMAIN s.clientPendingFetches
                   THEN [RejectPending(s, s.clientPendingFetches[clientId])
                            EXCEPT !.clientPendingFetches = MapDel(@, clientId)]
                   ELSE s
             s2 == DropFromGroups(s1, clientId, s1.clients[clientId], 1)
         IN [s2 EXCEPT !.clients = MapDel(@, clientId)]


\* Variant: the reverse index is not updated when the reply arrives.
handleReply_KeepIndex(s, fetchId, body) ==
    IF fetchId # NoFetchId /\ fetchId \in DOMAIN s.pendingFetches
    THEN Settle([s EXCEPT !.timers = MapDel(@, fetchId),
                          !.pendingFetches = MapDel(@, fetchId)],
                fetchId, Resolved(body))
    ELSE s

\* Variant: the PendingFetch stays in the primary map after the reply.
handleReply_KeepPending(s, fetchId, body) ==
    IF fetchId # NoFetchId /\ fetchId \in DOMAIN s.pendingFetches
    THEN Settle([s EXCEPT !.timers = MapDel(@, fetchId)], fetchId, Resolved(body))
    ELSE s

\* ------------------------------------------------------- inbound messages
\* handleMessage for an envelope of type 'reply': with a non-empty fetchId
\* that is outstanding, the PendingFetch is removed from both maps and its
\* promise resolved with the body; otherwise nothing happens.  The
\* connection the frame arrived on plays no part.
handleReply(s, fetchId, body) ==
    IF fetchId # NoFetchId /\ fetchId \in DOMAIN s.pendingFetches
    THEN LET pending == s.pendingFetches[fetchId]
             s1 == [s EXCEPT !.timers = MapDel(@, fetchId),
                             !.pendingFetches = MapDel(@, fetchId)]
             s2 == IF pending.clientId \in DOMAIN s1.clientPendingFetches
                   THEN IF s1.clientPendingFetches[pending.clientId] \ {fetchId} = {}
                        THEN [s1 EXCEPT !.clientPendingFetches = MapDel(@, pending.clientId)]
                        ELSE [s1 EXCEPT !.clientPendingFetches[pending.clientId] = @ \ {fetchId}]
                   ELSE s1
         IN Settle(s2, fetchId, Resolved(body))
    ELSE s

\* Variant: the reverse index is not cleaned when the deadline fires.
fetchTimeout_KeepIndex(s, fetchId, maxWait) ==
    Settle([s EXCEPT !.timers = MapDel(@, fetchId),
                     !.pendingFetches = MapDel(@, fetchId)],
           fetchId, Rejected("timeout", maxWait))

\* The setTimeout callback of fetch for fetchId, armed with maxWait.
fetchTimeout(s, fetchId, maxWait) ==
    LET s0 == [s EXCEPT !.timers = MapDel(@, fetchId)]
        s1 == IF fetchId \in DOMAIN s0.pendingFetches
              THEN LET owner == s0.pendingFetches[fetchId].clientId IN
                   IF owner \in DOMAIN s0.clientPendingFetches
                   THEN IF s0.clientPendingFetches[owner] \ {fetchId} = {}
                        THEN [s0 EXCEPT !.clientPendingFetches = MapDel(@, owner)]
                        ELSE [s0 EXCEPT !.clientPendingFetches[owner] = @ \ {fetchId}]
                   ELSE s0
              ELSE s0
        s2 == [s1 EXCEPT !.pendingFetches = MapDel(@, fetchId)]
    IN Settle(s2, fetchId, Rejected("timeout", maxWait))

\* ------------------------------------------------------- dispatch pipeline
\* handleMessage for an envelope of type 'event', on either endpoint: the
\* server (server.ts:245-318) and the client (client-browser.ts:128-197) run
\* the same code, apart from the sendMessage behind `reply`.  ep names the
\* endpoint.  A middleware or handler is modelled by what it does with its
\* arguments: the reply invocations it makes, in order, and whether it then
\* throws.  The pipeline is suspended while a callback runs (await); s.run is
\* the suspended invocation, s.exc an exception in flight inside a step.

\* JS values passed to reply and put in a body.
JsNull == [js |-> "null"]
JsData == [js |-> "string", v |-> "d"]
Message(code, data, msg) == [code |-> code, data |-> data, msg |-> msg]

\* Argument lists of reply(...) calls: reply(data) and reply(data, code, msg).
ReplyData == <<JsData>>
ReplyDeny == <<JsNull, 401, "Unauthorized">>

\* Callbacks an application registers.
Pass == [calls |-> <<>>, throws |-> FALSE]
ReplyOnce == [calls |-> <<ReplyData>>, throws |-> FALSE]
ReplyTwice == [calls |-> <<ReplyDeny, ReplyData>>, throws |-> FALSE]
Throw == [calls |-> <<>>, throws |-> TRUE]
ReplyThrow == [calls |-> <<ReplyData>>, throws |-> TRUE]
Behaviours == {Pass, ReplyOnce, ReplyTwice, Throw, ReplyThrow}

ReplyEnvelope(to, fetchId, body) ==
    [to |-> to, type |-> "reply", fetchId |-> fetchId, body |-> body]

\* Client sendMessage: throws unless this.ws is set and OPEN.
clientSendMessage(s, message) ==
    IF s.clientReady THEN [s EXCEPT !.sent = Append(@, message)]
    ELSE [s EXCEPT !.exc = "WebSocket is not connected"]

\* Variant: the replied flag is not tested.
reply_NoFlag(s, ep, args) ==
    LET s1 == [s EXCEPT !.run.invoked = @ + 1, !.run.replied = TRUE]
        message == ReplyEnvelope(s.run.conn, s.run.fetchId, args[1])
        s2 == IF ep = "server" THEN sendMessage(s1, s.run.conn, message)
              ELSE clientSendMessage(s1, message)
    IN [s2 EXCEPT !.run.nsent = @ + (Len(s2.sent) - Len(s1.sent))]

\* The reply closure: (data) => { if (replied) return; replied = true;
\* sendMessage({type: 'reply', fetchId, body: data}) }.  Arguments after the
\* first are not received.  run.invoked counts the invocations, run.nsent the
\* envelopes handed to ws.send.
reply(s, ep, args) ==
    IF s.run.replied THEN [s EXCEPT !.run.invoked = @ + 1]
    ELSE LET s1 == [s EXCEPT !.run.invoked = @ + 1, !.run.replied = TRUE]
             message == ReplyEnvelope(s.run.conn, s.run.fetchId, args[1])
             s2 == IF ep = "server" THEN sendMessage(s1, s.run.conn, message)
                   ELSE clientSendMessage(s1, message)
         IN [s2 EXCEPT !.run.nsent = @ + (Len(s2.sent) - Len(s1.sent))]

\* The body of a callback: its reply calls one after the other (an exception
\* out of reply ends it), then its own throw.
RECURSIVE callback(_, _, _, _)
callback(s, ep, b, i) ==
    IF s.exc # "none" THEN s
    ELSE IF i > Len(b.calls)
         THEN IF b.throws THEN [s EXCEPT !.exc = "callback error"] ELSE s
         ELSE callback(reply(s, ep, b.calls[i]), ep, b, i + 1)

\* handleMessage returns (or its promise rejects with the exception in
\* flight, which the message listener catches and logs).
finish(s) ==
    [s EXCEPT !.run.phase = "done", !.rejection = s.exc, !.exc = "none"]

\* Variant: the automatic 404 does not test fetchId.
noHandlerReply_Always(s, ep) ==
    IF ~s.run.replied
    THEN finish(reply(s, ep, <<Message(404, JsNull, <<"No handler for event: ", s.run.event>>)>>))
    ELSE finish(s)

\* if (!replied && fetchId) reply({code: 404, ...})
noHandlerReply(s, ep) ==
    IF ~s.run.replied /\ s.run.fetchId # NoFetchId
    THEN finish(reply(s, ep, <<Message(404, JsNull, <<"No handler for event: ", s.run.event>>)>>))
    ELSE finish(s)

\* The list the current phase iterates: this.middlewares, or the array found
\* under the event name.
Callbacks(s) ==
    IF s.run.phase = "middleware" THEN s.middlewares
    ELSE IF s.run.event \in DOMAIN s.eventHandlers THEN s.eventHandlers[s.run.event]
    ELSE <<>>

\* Variant: the loops do not test `replied` before a callback.
proceed_NoBreak(s, ep) ==
    IF s.run.phase = "middleware"
    THEN IF s.run.idx <= Len(s.middlewares) THEN s
         ELSE LET s1 == [s EXCEPT !.run.phase = "handler", !.run.idx = 1]
              IN IF 1 <= Len(Callbacks(s1)) THEN s1 ELSE noHandlerReply(s1, ep)
    ELSE IF s.run.idx <= Len(Callbacks(s)) THEN s
         ELSE noHandlerReply(s, ep)

\* The pipeline from the top of a loop iteration up to the next callback
\* invocation, or to its end: `if (replied) break`, the end of the middleware
\* loop, `if (!replied)` and the handler lookup, the end of the handler loop
\* and the automatic 404.
proceed(s, ep) ==
    IF s.run.phase = "middleware"
    THEN IF s.run.idx <= Len(s.middlewares) /\ ~s.run.replied THEN s
         ELSE IF s.run.replied THEN finish(s)
         ELSE LET s1 == [s EXCEPT !.run.phase = "handler", !.run.idx = 1]
              IN IF 1 <= Len(Callbacks(s1)) THEN s1 ELSE noHandlerReply(s1, ep)
    ELSE IF s.run.idx <= Len(Callbacks(s)) /\ ~s.run.replied THEN s
         ELSE noHandlerReply(s, ep)

\* Variant: the callback is awaited outside any try block.
catchError_Uncaught(s, ep) == finish(s)

\* catch (error) { if (!replied) reply({code: 500, ...}); return; }
catchError(s, ep) ==
    LET s1 == [s EXCEPT !.exc = "none"]
        s2 == IF ~s1.run.replied
              THEN reply(s1, ep, <<Message(500, JsNull,
                                   IF s.run.phase = "middleware" THEN "Middleware error"
                                   ELSE "Handler error")>>)
              ELSE s1
    IN finish(s2)

\* The continuation of `await callback(...)`: the callback the pipeline is
\* suspended in runs, then the pipeline goes on to the next suspension.
resume(s, ep) ==
    LET b == Callbacks(s)[s.run.idx]
        s1 == callback([s EXCEPT !.run.order = Append(@, <<s.run.phase, s.run.idx>>)],
                       ep, b, 1)
    IN IF s1.exc # "none" THEN catchError(s1, ep)
       ELSE proceed([s1 EXCEPT !.run.idx = @ + 1], ep)

NoRun == [conn |-> 0, event |-> "", fetchId |-> NoFetchId, replied |-> FALSE,
          phase |-> "none", idx |-> 0, invoked |-> 0, nsent |-> 0, order |-> <<>>]

\* if (type === 'event' && event) { let replied = false; ... }
dispatch(s, ep, conn, event, fetchId) ==
    proceed([s EXCEPT !.run = [conn |-> conn, event |-> event, fetchId |-> fetchId,
                               replied |-> FALSE, phase |-> "middleware", idx |-> 1,
                               invoked |-> 0, nsent |-> 0, order |-> <<>>]], ep)

\* Variant: the listener awaits the pipeline of the earlier envelope before it
\* starts the next one.
overtake_Queued(s, ep, conn, event, fetchId) == s

\* The message listener with an Event envelope while the handleMessage
\* invocation for an earlier envelope awaits a callback: handleMessage(...) is
\* called and not awaited, so a second invocation starts.
overtake(s, ep, conn, event, fetchId) ==
    dispatch([s EXCEPT !.earlier = s.run], ep, conn, event, fetchId)

\* The callback the earlier invocation awaits completes: its continuation
\* runs up to its next await; the later invocation is not touched.
resumeEarlier(s, ep) ==
    LET s1 == resume([s EXCEPT !.run = s.earlier], ep)
    IN [s1 EXCEPT !.run = s.run, !.earlier = s1.run]

\* maxMessageSize: number = 1024 * 1024
maxMessageSize == 1048576

\* Payloads of inbound frames: size against maxMessageSize; text that
\* JSON.parse rejects ("garbage"), the text `null`, or any other JSON value,
\* of which type, event, fetchId and body are the properties read (type
\* "other": missing or unknown; event "": missing).
Raw(size, text, type, event, fetchId, body) ==
    [size |-> size, text |-> text, type |-> type, event |-> event,
     fetchId |-> fetchId, body |-> body]

\* Variant: the 413 and 400 replies carry the correlation id of the frame.
handleMessage_EchoId(s, c, raw) ==
    IF raw.size = "big"
    THEN sendMessage(s, c, ReplyEnvelope(c, raw.fetchId, Message(413, JsNull, <<"Message too large. Maximum size is ", maxMessageSize, " bytes">>)))
    ELSE IF raw.text = "garbage"
    THEN sendMessage(s, c, ReplyEnvelope(c, raw.fetchId, Message(400, JsNull, "Invalid message format")))
    ELSE IF raw.text = "null" THEN [s EXCEPT !.rejection = "TypeError"]
    ELSE IF raw.type = "reply" /\ raw.fetchId # NoFetchId
         THEN handleReply(s, raw.fetchId, raw.body)
    ELSE IF raw.type = "event" /\ raw.event # ""
         THEN dispatch(s, "server", c, raw.event, raw.fetchId)
    ELSE s

\* Variant: the size test is missing.
handleMessage_NoSizeGuard(s, c, raw) ==
    IF raw.text = "garbage"
    THEN sendMessage(s, c, ReplyEnvelope(c, NoFetchId, Message(400, JsNull, "Invalid message format")))
    ELSE IF raw.text = "null" THEN [s EXCEPT !.rejection = "TypeError"]
    ELSE IF raw.type = "reply" /\ raw.fetchId # NoFetchId
         THEN handleReply(s, raw.fetchId, raw.body)
    ELSE IF raw.type = "event" /\ raw.event # ""
         THEN dispatch(s, "server", c, raw.event, raw.fetchId)
    ELSE s

\* Server handleMessage(ws, user, rawMessage).
handleMessage(s, c, raw) ==
    IF raw.size = "big"
    THEN sendMessage(s, c, ReplyEnvelope(c, NoFetchId, Message(413, JsNull, <<"Message too large. Maximum size is ", maxMessageSize, " bytes">>)))
    ELSE IF raw.text = "garbage"
    THEN sendMessage(s, c, ReplyEnvelope(c, NoFetchId, Message(400, JsNull, "Invalid message format")))
    ELSE IF raw.text = "null" THEN [s EXCEPT !.rejection = "TypeError"]
    ELSE IF raw.type = "reply" /\ raw.fetchId # NoFetchId
         THEN handleReply(s, raw.fetchId, raw.body)
    ELSE IF raw.type = "event" /\ raw.event # ""
         THEN dispatch(s, "server", c, raw.event, raw.fetchId)
    ELSE s

\* ------------------------------------------------------------------ groups
\* Variant: the live-set check is missing.
addGroup_Unchecked(s, group, id) ==
    LET s1 == IF group \in DOMAIN s.groups
              THEN [s EXCEPT !.groups[group] = @ \cup {id}]
              ELSE [s EXCEPT !.groups = MapPut(@, group, {id})]
    IN IF id \notin DOMAIN s1.clients \/ group \in SeqRange(s1.clients[id]) THEN s1
       ELSE [s1 EXCEPT !.clients[id] = Append(@, group)]

\* Variant: the group name is pushed onto the peer's list without the
\* includes() test.
addGroup_AlwaysPush(s, group, id) ==
    IF id \notin DOMAIN s.clients
    THEN [s EXCEPT !.thrown = "Client not found"]
    ELSE LET s1 == IF group \in DOMAIN s.groups
                   THEN [s EXCEPT !.groups[group] = @ \cup {id}]
                   ELSE [s EXCEPT !.groups = MapPut(@, group, {id})]
         IN [s1 EXCEPT !.clients[id] = Append(@, group)]

addGroup(s, group, id) ==
    IF id \notin DOMAIN s.clients
    THEN [s EXCEPT !.thrown = "Client not found"]
    ELSE LET s1 == IF group \in DOMAIN s.groups
                   THEN [s EXCEPT !.groups[group] = @ \cup {id}]
                   ELSE [s EXCEPT !.groups = MapPut(@, group, {id})]
         IN IF group \in SeqRange(s1.clients[id]) THEN s1
            ELSE [s1 EXCEPT !.clients[id] = Append(@, group)]

\* Variant: the peer's own group list is not updated.
removeGroup_KeepUserList(s, group, id) ==
    IF id \notin DOMAIN s.clients
    THEN [s EXCEPT !.thrown = "Client not found"]
    ELSE IF group \in DOMAIN s.groups
         THEN IF s.groups[group] \ {id} = {}
              THEN [s EXCEPT !.groups = MapDel(@, group)]
              ELSE [s EXCEPT !.groups[group] = @ \ {id}]
         ELSE s

\* Variant: a group that became empty is not deleted.
removeGroup_KeepEmpty(s, group, id) ==
    IF id \notin DOMAIN s.clients
    THEN [s EXCEPT !.thrown = "Client not found"]
    ELSE LET s1 == IF group \in DOMAIN s.groups
                   THEN [s EXCEPT !.groups[group] = @ \ {id}]
                   ELSE s
             i == IndexOf(s1.clients[id], group)
         IN IF i > 0 THEN [s1 EXCEPT !.clients[id] = SeqRemoveAt(@, i)] ELSE s1

\* Variant: the indexOf() result is not tested, so splice(-1, 1) takes the
\* last name off the peer's list when the group is not in it.
removeGroup_SpliceUnchecked(s, group, id) ==
    IF id \notin DOMAIN s.clients
    THEN [s EXCEPT !.thrown = "Client not found"]
    ELSE LET s1 == IF group \in DOMAIN s.groups
                   THEN IF s.groups[group] \ {id} = {}
                        THEN [s EXCEPT !.groups = MapDel(@, group)]
                        ELSE [s EXCEPT !.groups[group] = @ \ {id}]
                   ELSE s
             i == IndexOf(s1.clients[id], group)
         IN IF i > 0 THEN [s1 EXCEPT !.clients[id] = SeqRemoveAt(@, i)]
            ELSE IF Len(s1.clients[id]) > 0
                 THEN [s1 EXCEPT !.clients[id] = SeqRemoveAt(@, Len(@))]
                 ELSE s1

removeGroup(s, group, id) ==
    IF id \notin DOMAIN s.clients
    THEN [s EXCEPT !.thrown = "Client not found"]
    ELSE LET s1 == IF group \in DOMAIN s.groups
                   THEN IF s.groups[group] \ {id} = {}
                        THEN [s EXCEPT !.groups = MapDel(@, group)]
                        ELSE [s EXCEPT !.groups[group] = @ \ {id}]
                   ELSE s
             i == IndexOf(s1.clients[id], group)
         IN IF i > 0 THEN [s1 EXCEPT !.clients[id] = SeqRemoveAt(@, i)] ELSE s1

\* ------------------------------------------------------------------- close

\* Variant: close(ids) closes the sockets and leaves the bookkeeping to the
\* 'close' event.
RECURSIVE close_SocketOnly(_, _, _)
close_SocketOnly(s, ids, i) ==
    IF i > Len(ids) THEN s
    ELSE close_SocketOnly(IF ids[i] \in DOMAIN s.clients THEN wsClose(s, ids[i]) ELSE s,
                          ids, i + 1)

RECURSIVE close(_, _, _)
close(s, ids, i) ==
    IF i > Len(ids) THEN s
    ELSE close(IF ids[i] \in DOMAIN s.clients THEN cleanupClient(wsClose(s, ids[i]), ids[i]) ELSE s,
               ids, i + 1)

\* Map iteration order is insertion order, i.e. increasing peer id.
RECURSIVE closeAllFrom(_, _)
closeAllFrom(s, todo) ==
    IF todo = {} THEN s
    ELSE closeAllFrom(cleanupClient(wsClose(s, SetMin(todo)), SetMin(todo)),
                      todo \ {SetMin(todo)})

closeAll(s) == closeAllFrom(s, DOMAIN s.clients)




\* ---------------------------------------------------------------- accept
\* onConnect callbacks: the default no-op, and one that turns the new peer
\* away with close(client.id).
OnConnects == {"return", "close"}
onConnect(s, clientId, b) == IF b = "close" THEN close(s, <<clientId>>, 1) ELSE s

SystemId(clientId) ==
    Envelope(clientId, "event", "_system_id", NoFetchId, DefaultCode, clientId)

\* Variant: the id is announced before the connect callback runs.
connection_SendFirst(s, clientId, b) ==
    LET s1 == [s EXCEPT !.clients = MapPut(@, clientId, <<>>),
                        !.wsState[clientId] = "open"]
    IN onConnect(sendMessage(s1, clientId, SystemId(clientId)), clientId, b)

\* The wss.on('connection') listener up to the registration of the socket's
\* listeners: clients.set, onConnect(user), sendMessage(_system_id).
connection(s, clientId, b) ==
    LET s1 == [s EXCEPT !.clients = MapPut(@, clientId, <<>>),
                        !.wsState[clientId] = "open"]
        s2 == onConnect(s1, clientId, b)
    IN sendMessage(s2, clientId, SystemId(clientId))

\* ------------------------------------------------------------------- fetch
\* hasReply = false: one Event envelope without fetchId per known target.
RECURSIVE fetchNoReply(_, _, _, _)
fetchNoReply(s, ids, i, code) ==
    IF i > Len(ids) THEN s
    ELSE fetchNoReply(IF ids[i] \in DOMAIN s.clients
                      THEN sendMessage(s, ids[i],
                               Envelope(ids[i], "event", "ev", NoFetchId, code, "d"))
                      ELSE s,
                      ids, i + 1, code)

\* hasReply = true: the loop that builds `promises`.  slots collects, per
\* target, the id and the fetchId registered for it (NoFetchId: not found);
\* k names the invocation.
RECURSIVE fetchLoop(_, _, _, _, _, _, _)
fetchLoop(s, ids, i, k, maxWait, code, slots) ==
    IF i > Len(ids) THEN [s |-> s, slots |-> slots]
    ELSE LET clientId == ids[i] IN
         IF clientId \notin DOMAIN s.clients
         THEN fetchLoop(s, ids, i + 1, k, maxWait, code,
                        Append(slots, [id |-> clientId, fid |-> NoFetchId]))
         ELSE LET fetchId == s.nextFetchId
                  s1 == [s EXCEPT
                           !.nextFetchId = @ + 1,
                           !.timers = MapPut(@, fetchId, maxWait),
                           !.promise[fetchId] = [st |-> "pending", err |-> "none", arg |-> 0,
                                                 body |-> "", n |-> 0, call |-> k],
                           !.pendingFetches = MapPut(@, fetchId, [clientId |-> clientId]),
                           !.clientPendingFetches =
                               IF clientId \in DOMAIN @
                               THEN [@ EXCEPT ![clientId] = @ \cup {fetchId}]
                               ELSE MapPut(@, clientId, {fetchId})]
                  s2 == sendMessage(s1, clientId,
                            Envelope(clientId, "event", "ev", fetchId, code, "d"))
              IN fetchLoop(s2, ids, i + 1, k, maxWait, code,
                           Append(slots, [id |-> clientId, fid |-> fetchId]))

UndefinedResult == [st |-> "resolved", err |-> "none", arg |-> 0, shape |-> "undefined", value |-> <<>>]

fetch(s, ids, hasReply, maxWait) ==
    IF ~hasReply
    THEN [fetchNoReply(s, ids, 1, DefaultCode) EXCEPT
            !.ret = [ids |-> ids, hasReply |-> FALSE, maxWait |-> maxWait, slots |-> <<>>,
                     result |-> UndefinedResult]]
    ELSE LET k == s.nextFetchId
             r == fetchLoop(s, ids, 1, k, maxWait, DefaultCode, <<>>)
             outs == [i \in 1..Len(r.slots) |-> SlotOutcome(r.s, r.slots[i])]
             call == [ids |-> ids, hasReply |-> TRUE, maxWait |-> maxWait, slots |-> r.slots,
                      result |-> FetchResult(outs)]
         IN [r.s EXCEPT !.ret = call,
                        !.calls = IF r.s.nextFetchId > k THEN MapPut(@, k, call) ELSE @]

\* The `clientIds` Set built by fetchByGroup and closeByGroups: the members
\* of each named group that exists, added group by group.  `order` stands for
\* the insertion order of the member Sets, which the model of _groups does
\* not keep: the members of a group are visited in the order they have in it.
RECURSIVE collectIds(_, _, _, _, _)
collectIds(s, groupList, i, order, clientIds) ==
    IF i > Len(groupList) THEN clientIds
    ELSE LET groupName == groupList[i]
             fresh == IF groupName \in DOMAIN s.groups
                      THEN SelectSeq(order, LAMBDA id : id \in s.groups[groupName]
                                                       /\ id \notin SeqRange(clientIds))
                      ELSE <<>>
         IN collectIds(s, groupList, i + 1, order, clientIds \o fresh)

\* closeByGroups(groups): the members of the named groups that exist, gathered
\* in a Set, handed to close as an array.
closeByGroups(s, groupList, order) == close(s, collectIds(s, groupList, 1, order, <<>>), 1)

EmptyListResult == [st |-> "resolved", err |-> "none", arg |-> 0, shape |-> "list", value |-> <<>>]

\* Variant: the ids are collected in an array, without de-duplication.
fetchByGroup_NoDedup(s, groupList, order, hasReply, maxWait) ==
    LET clientIds == collectIds(s, <<groupList[1]>>, 1, order, <<>>) \o
                     (IF Len(groupList) > 1
                      THEN collectIds(s, Tail(groupList), 1, order, <<>>) ELSE <<>>)
    IN IF Len(clientIds) = 0
       THEN [s EXCEPT !.ret = [ids |-> <<>>, hasReply |-> hasReply, maxWait |-> maxWait,
                               slots |-> <<>>, result |-> EmptyListResult]]
       ELSE fetch(s, clientIds, hasReply, maxWait)

fetchByGroup(s, groupList, order, hasReply, maxWait) ==
    LET clientIds == collectIds(s, groupList, 1, order, <<>>)
    IN IF Len(clientIds) = 0
       THEN [s EXCEPT !.ret = [ids |-> <<>>, hasReply |-> hasReply, maxWait |-> maxWait,
                               slots |-> <<>>, result |-> EmptyListResult]]
       ELSE fetch(s, clientIds, hasReply, maxWait)


\* ------------------------------------------------------------------ actions
Op(op, id, group) == [op |-> op, id |-> id, group |-> group]


\* ------------------------------------------------------------------ client
\* MasSocketClinet (src/src/client-browser.ts).  The sockets it creates with
\* new WebSocket(url) are numbered in creation order; every one of them
\* keeps the listeners setupWebSocket attached to it.  The url is not empty.
SocketIds == 1..MaxSockets
DefaultMaxReconnectCount == 5
CeilingCount == 6        \* smallest counter whose doubled delay passes the ceiling
ReconnectCounts == 0..MaxReconnect \cup {CeilingCount}

Min(a, b) == IF a <= b THEN a ELSE b

\* Math.min(1000 * Math.pow(2, reconnectCount - 1), 30000)
Backoff(reconnectCount) == Min(1000 * 2 ^ (reconnectCount - 1), 30000)

\* Field initialisers of the class.  ws, reconnectTimer: 0 is null.
\* readyState: "none" before new WebSocket.  timers: the armed retry timers,
\* handle -> delay.  connectTimeout: "null", or the handle of a timer that
\* is "armed" or has "fired".  promise: the promise fetch created for each
\* fetchId.  sent, thrown, settled: outputs of the last step.
NewClient ==
    [ws |-> 0,
     readyState |-> [k \in SocketIds |-> "none"],
     established |-> [k \in SocketIds |-> FALSE],
     pendingFetches |-> {},
     promise |-> [f \in FetchIds |-> [st |-> "none", err |-> <<>>]],
     nextFetchId |-> 1,
     reconnectTimer |-> 0,
     timers |-> EmptyMap,
     nextTimer |-> 1,
     reconnectCount |-> 0,
     shouldReconnect |-> FALSE,
     connectTimeout |-> "null",
     maxReconnectCount |-> DefaultMaxReconnectCount,
     status |-> "disconnected",
     nextSocket |-> 1,
     disconnectCalls |-> 0,
     sent |-> <<>>,
     thrown |-> "none"]

\* The client at the start of a step.
ClientCur == [client EXCEPT !.sent = <<>>, !.thrown = "none"]

\* sendMessage(message) on this.ws
clientSend(c, message) ==
    IF c.ws # 0 /\ c.readyState[c.ws] = "open"
    THEN [c EXCEPT !.sent = Append(@, message)]
    ELSE [c EXCEPT !.thrown = "WebSocket is not connected"]

\* socket.close() of the browser: a socket that is CONNECTING or OPEN
\* becomes CLOSING; its events are dispatched later.
socketClose(c, k) ==
    IF k # 0 /\ c.readyState[k] \in {"connecting", "open"}
    THEN [c EXCEPT !.readyState[k] = "closing"]
    ELSE c

\* if (this.connectTimeout) { clearTimeout(this.connectTimeout); this.connectTimeout = null }
clearConnectTimeout(c) == [c EXCEPT !.connectTimeout = "null"]

setupWebSocket(c) ==
    LET k == c.nextSocket
    IN [clearConnectTimeout(c) EXCEPT !.connectTimeout = "armed", !.ws = k,
                                      !.readyState[k] = "connecting",
                                      !.nextSocket = k + 1]

\* Variant: the limit test is missing.
handleReconnect_NoLimit(c) ==
    IF ~c.shouldReconnect THEN c
    ELSE [c EXCEPT !.reconnectCount = @ + 1,
                   !.reconnectTimer = c.nextTimer,
                   !.timers = MapPut(@, c.nextTimer, Backoff(c.reconnectCount + 1)),
                   !.nextTimer = @ + 1]

\* Variant: the delay doubles without ceiling.
handleReconnect_NoCeiling(c) ==
    IF ~c.shouldReconnect THEN c
    ELSE IF c.reconnectCount >= c.maxReconnectCount
    THEN [c EXCEPT !.shouldReconnect = FALSE]
    ELSE [c EXCEPT !.reconnectCount = @ + 1,
                   !.reconnectTimer = c.nextTimer,
                   !.timers = MapPut(@, c.nextTimer, 1000 * 2 ^ c.reconnectCount),
                   !.nextTimer = @ + 1]

handleReconnect(c) ==
    IF ~c.shouldReconnect THEN c
    ELSE IF c.reconnectCount >= c.maxReconnectCount
    THEN [c EXCEPT !.shouldReconnect = FALSE]
    ELSE [c EXCEPT !.reconnectCount = @ + 1,
                   !.reconnectTimer = c.nextTimer,
                   !.timers = MapPut(@, c.nextTimer, Backoff(c.reconnectCount + 1)),
                   !.nextTimer = @ + 1]

\* The callback of the retry timer.
retryTimer(c) ==
    IF c.shouldReconnect /\ c.status = "disconnected"
    THEN setupWebSocket([c EXCEPT !.status = "connecting"])
    ELSE c

\* The callback of the connect timeout.
connectTimer(c) ==
    IF c.status = "connecting" THEN handleReconnect(socketClose(c, c.ws)) ELSE c

cleanupPendingFetches(c) ==
    [c EXCEPT !.pendingFetches = {},
              !.promise = [f \in FetchIds |->
                              IF f \in c.pendingFetches
                              THEN [st |-> "rejected", err |-> <<"Connection closed">>]
                              ELSE @[f]]]

\* close()
clientClose(c) ==
    LET c0 == [c EXCEPT !.shouldReconnect = FALSE]
        c1 == IF c0.reconnectTimer # 0
              THEN [c0 EXCEPT !.timers = MapDel(@, c0.reconnectTimer), !.reconnectTimer = 0]
              ELSE c0
        c2 == IF c1.connectTimeout # "null" THEN clearConnectTimeout(c1) ELSE c1
        c3 == IF c2.ws # 0 THEN [socketClose(c2, c2.ws) EXCEPT !.ws = 0] ELSE c2
    IN cleanupPendingFetches([c3 EXCEPT !.status = "disconnected"])

\* connect(url)
connect(c) ==
    LET c1 == IF c.ws # 0 /\ c.status # "disconnected" THEN clientClose(c) ELSE c
    IN setupWebSocket([c1 EXCEPT !.status = "connecting", !.shouldReconnect = TRUE,
                                 !.reconnectCount = 0])

\* The 'open' listener.
onOpen(c) ==
    [clearConnectTimeout(c) EXCEPT !.status = "connected", !.reconnectCount = 0]

\* The 'close' listener.
onSocketClose(c) ==
    handleReconnect([c EXCEPT !.status = "disconnected", !.disconnectCalls = @ + 1])

\* The 'error' listener.
onSocketError(c) ==
    handleReconnect([clearConnectTimeout(c) EXCEPT !.status = "disconnected",
                                                  !.disconnectCalls = @ + 1])

\* Variant: the deadline rejects the promise and leaves the entry in the map.
clientFetchTimeout_KeepPending(c, fetchId, maxWait) ==
    [c EXCEPT !.promise[fetchId] = IF @.st = "pending"
                                   THEN [st |-> "rejected", err |-> <<"Request timeout after ", maxWait, "ms">>]
                                   ELSE @]

\* The setTimeout callback of fetch for fetchId, armed with maxWait.
clientFetchTimeout(c, fetchId, maxWait) ==
    [c EXCEPT !.pendingFetches = @ \ {fetchId},
              !.promise[fetchId] = IF @.st = "pending"
                                   THEN [st |-> "rejected", err |-> <<"Request timeout after ", maxWait, "ms">>]
                                   ELSE @]

\* handleMessage for a Reply envelope.
clientReply(c, fetchId) ==
    IF fetchId # NoFetchId /\ fetchId \in c.pendingFetches
    THEN [c EXCEPT !.pendingFetches = @ \ {fetchId},
                   !.promise[fetchId] = [st |-> "resolved", err |-> <<>>]]
    ELSE c

\* fetch(event, data, {hasReply})
clientFetch(c, hasReply) ==
    IF c.status # "connected"
    THEN [c EXCEPT !.thrown = "WebSocket is not connected"]
    ELSE IF ~hasReply
    THEN clientSend(c, Envelope(0, "event", "ev", NoFetchId, DefaultCode, "data"))
    ELSE LET f == c.nextFetchId
         IN clientSend([c EXCEPT !.nextFetchId = f + 1,
                                 !.pendingFetches = @ \cup {f},
                                 !.promise[f] = [st |-> "pending", err |-> <<>>]],
                       Envelope(0, "event", "ev", f, DefaultCode, "data"))

\* Connection attempts: the sockets the application closed itself, the
\* sockets whose attempt has been seen to fail, the number of attempts that
\* failed since the last connect() and the last 'open', whether close()
\* has been called since the last connect(), and the requests whose envelope
\* the server answered with a 413 or 400 error reply.
NoAttempts == [closedByApp |-> {}, failed |-> {}, consecutive |-> 0, closed |-> FALSE,
               rejected |-> {}]

\* Id arrays handed to fetch() and close(): one id, or two distinct ids.
TargetLists == {<<a>> : a \in ClientIds} \cup
               {<<p[1], p[2]>> : p \in {q \in ClientIds \X ClientIds : q[1] # q[2]}}

\* The state after construction.
Constructed ==
    /\ clients = EmptyMap
    /\ wsState = [c \in ClientIds |-> "none"]
    /\ groups = EmptyMap
    /\ pendingFetches = EmptyMap
    /\ clientPendingFetches = EmptyMap
    /\ timers = EmptyMap
    /\ promise = [f \in FetchIds |-> NoPromise]
    /\ calls = EmptyMap
    /\ ret = NoCall
    /\ sent = <<>>
    /\ nextClientId = 1
    /\ nextFetchId = 1
    /\ thrown = "none"
    /\ connectCalls = [c \in ClientIds |-> 0]
    /\ disconnectCalls = [c \in ClientIds |-> <<>>]
    /\ last = Op("init", 0, "")
    /\ steps = 0
    /\ middlewares = <<>>
    /\ eventHandlers = EmptyMap
    /\ run = NoRun
    /\ earlier = NoRun
    /\ clientReady = FALSE
    /\ rejection = "none"
    /\ client = NewClient
    /\ attempts = NoAttempts

Init == Constructed /\ endpoint = "server"

\* wss.on('connection')
Connection ==
    /\ nextClientId <= MaxClients
    /\ LET clientId == nextClientId
           s1 == [Cur EXCEPT !.clients = MapPut(@, clientId, <<>>),
                             !.wsState[clientId] = "open"]
       IN Install(sendMessage(s1, clientId,
                      Envelope(clientId, "event", "_system_id", NoFetchId, DefaultCode, clientId)))
    /\ nextClientId' = nextClientId + 1
    /\ connectCalls' = [connectCalls EXCEPT ![nextClientId] = @ + 1]
    /\ last' = Op("connection", nextClientId, "")
    /\ UNCHANGED disconnectCalls

\* The transport leaves OPEN (close frame received, link lost) before the
\* socket's 'close' event is emitted; no server code runs.
TransportClosing(c) ==
    /\ wsState[c] = "open"
    /\ Install([Cur EXCEPT !.wsState[c] = "closing"])
    /\ last' = Op("closing", c, "")
    /\ UNCHANGED <<nextClientId, connectCalls, disconnectCalls>>

\* ws.on('close')
OnClose(c) ==
    /\ wsState[c] \in {"open", "closing", "errored"}
    /\ Install(cleanupClient([Cur EXCEPT !.wsState[c] = "closed"], c))
    /\ disconnectCalls' = [disconnectCalls EXCEPT ![c] = Append(@, "close")]
    /\ last' = Op("onclose", c, "")
    /\ UNCHANGED <<nextClientId, connectCalls>>

\* ws.on('error'); the socket's 'close' event follows later.
OnError(c) ==
    /\ wsState[c] \in {"open", "closing"}
    /\ Install(cleanupClient([Cur EXCEPT !.wsState[c] = "errored"], c))
    /\ disconnectCalls' = [disconnectCalls EXCEPT ![c] = Append(@, "error")]
    /\ last' = Op("onerror", c, "")
    /\ UNCHANGED <<nextClientId, connectCalls>>

\* ws.on('message') with a Reply envelope: any fetchId (or none), any body.
OnReply(c, fetchId, body) ==
    /\ wsState[c] \in {"open", "closing"}
    /\ Install(handleReply(Cur, fetchId, body))
    /\ last' = Op("reply", 0, "")
    /\ UNCHANGED <<nextClientId, connectCalls, disconnectCalls>>

\* A fetch deadline fires.
Timeout(fetchId) ==
    /\ fetchId \in DOMAIN timers
    /\ \E s \in {fetchTimeout(Cur, fetchId, timers[fetchId])} : Install(s)
    /\ last' = Op("timeout", 0, "")
    /\ UNCHANGED <<nextClientId, connectCalls, disconnectCalls>>

\* fetch(ids, event, data, {hasReply: true, maxWait})
Fetch(ids, maxWait) ==
    /\ Cardinality({i \in 1..Len(ids) : ids[i] \in DOMAIN clients}) <= MaxFetchIds + 1 - nextFetchId
    /\ Install(fetch(Cur, ids, TRUE, maxWait))
    /\ last' = Op("fetch", 0, "")
    /\ UNCHANGED <<nextClientId, connectCalls, disconnectCalls>>

\* fetch(ids, event, data, {hasReply: false})
Send(ids) ==
    /\ Install(fetch(Cur, ids, FALSE, DefaultMaxWait))
    /\ last' = Op("send", 0, "")
    /\ UNCHANGED <<nextClientId, connectCalls, disconnectCalls>>

AddGroup(group, id) ==
    /\ Install(addGroup(Cur, group, id))
    /\ last' = Op("addGroup", id, group)
    /\ UNCHANGED <<nextClientId, connectCalls, disconnectCalls>>

RemoveGroup(group, id) ==
    /\ Install(removeGroup(Cur, group, id))
    /\ last' = Op("removeGroup", id, group)
    /\ UNCHANGED <<nextClientId, connectCalls, disconnectCalls>>

Close(ids) ==
    /\ Install(close(Cur, ids, 1))
    /\ last' = Op("close", 0, "")
    /\ UNCHANGED <<nextClientId, connectCalls, disconnectCalls>>

CloseAll ==
    /\ Install(closeAll(Cur))
    /\ last' = Op("closeAll", 0, "")
    /\ UNCHANGED <<nextClientId, connectCalls, disconnectCalls>>

\* ------------------------------------------------- registration and inbound
EventNames == {"e1", "e2"}             \* event names carried by inbound envelopes
HandledEvents == {"e1"}                \* event names the application calls on() with
Endpoints == {"server", "client"}
PeerFetchId == 9                       \* a correlation id generated by the remote endpoint

Registered ==
    Len(middlewares) + Len(IF "e1" \in DOMAIN eventHandlers THEN eventHandlers["e1"] ELSE <<>>)

Suspended == run.phase \in {"middleware", "handler"}

\* use(handler), on either endpoint
Use(b) ==
    /\ Registered < MaxCallbacks
    /\ Install([Cur EXCEPT !.middlewares = Append(@, b)])
    /\ last' = Op("use", 0, "")
    /\ UNCHANGED <<nextClientId, connectCalls, disconnectCalls>>

\* on(event, handler), on either endpoint
On(event, b) ==
    /\ Registered < MaxCallbacks
    /\ Install([Cur EXCEPT !.eventHandlers =
                   IF event \in DOMAIN @ THEN [@ EXCEPT ![event] = Append(@, b)]
                   ELSE MapPut(@, event, <<b>>)])
    /\ last' = Op("on", 0, "")
    /\ UNCHANGED <<nextClientId, connectCalls, disconnectCalls>>

\* Frames a peer may send to the server.
Raws ==
    {Raw(z, t, "other", "", NoFetchId, "") : z \in {"ok", "big"}, t \in {"garbage", "null", "value"}}
    \cup {Raw(z, "value", "reply", "", f, b) :
             z \in {"ok", "big"}, f \in {NoFetchId} \cup FetchIds, b \in Bodies}
    \cup {Raw(z, "value", "event", e, f, "") :
             z \in {"ok", "big"}, e \in {""} \cup EventNames, f \in {NoFetchId, PeerFetchId}}

IsEvent(raw) ==
    raw.size = "ok" /\ raw.text = "value" /\ raw.type = "event" /\ raw.event # ""

\* ws.on('message') of the server, one Event envelope in flight at a time.
\* Frames arrive on an open socket, and on a socket the server itself has
\* closed until the peer answers the close.
OnMessage(c, raw) ==
    /\ endpoint = "server"
    /\ wsState[c] = "open" \/ (wsState[c] = "closing" /\ c \notin DOMAIN clients)
    /\ IsEvent(raw) => ~Suspended
    /\ Install(handleMessage(Cur, c, raw))
    /\ last' = [op |-> "message", id |-> c, group |-> "", raw |-> raw]
    /\ UNCHANGED <<nextClientId, connectCalls, disconnectCalls>>

\* The client's message listener with an Event envelope, one in flight at a
\* time; the socket delivers frames while it is OPEN.
ClientOnEvent(event, fetchId) ==
    /\ endpoint = "client"
    /\ clientReady
    /\ ~Suspended
    /\ Install(dispatch(Cur, "client", 0, event, fetchId))
    /\ last' = [op |-> "message", id |-> 0, group |-> "",
                raw |-> Raw("ok", "value", "event", event, fetchId, "")]
    /\ UNCHANGED <<nextClientId, connectCalls, disconnectCalls>>

\* The callback the pipeline awaits completes.
Resume ==
    /\ Suspended
    /\ Install(resume(Cur, endpoint))
    /\ last' = Op("resume", run.conn, "")
    /\ UNCHANGED <<nextClientId, connectCalls, disconnectCalls>>

\* An Event envelope arrives while the pipeline of an earlier one is suspended.
Overtake(c, event, fetchId) ==
    /\ IF endpoint = "server" THEN c \in ClientIds /\ wsState[c] = "open"
       ELSE c = 0 /\ clientReady
    /\ Suspended
    /\ run.conn = c
    /\ earlier.phase \notin {"middleware", "handler"}
    /\ Install(overtake(Cur, endpoint, c, event, fetchId))
    /\ last' = [op |-> "overtake", id |-> c, group |-> "",
                raw |-> Raw("ok", "value", "event", event, fetchId, "")]
    /\ UNCHANGED <<nextClientId, connectCalls, disconnectCalls>>

\* The callback the earlier pipeline awaits completes.
ResumeEarlier ==
    /\ earlier.phase \in {"middleware", "handler"}
    /\ Install(resumeEarlier(Cur, endpoint))
    /\ last' = Op("resumeEarlier", earlier.conn, "")
    /\ UNCHANGED <<nextClientId, connectCalls, disconnectCalls>>

\* The client's socket becomes OPEN, or stops being so (close(), a transport
\* close, a reconnect in progress).
ClientSocket(ready) ==
    /\ endpoint = "client"
    /\ clientReady # ready
    /\ Install([Cur EXCEPT !.clientReady = ready])
    /\ last' = Op("socket", 0, "")
    /\ UNCHANGED <<nextClientId, connectCalls, disconnectCalls>>

\* Group-name arrays handed to fetchByGroup: one name, or two names (the
\* same name twice included).
GroupLists == {<<g>> : g \in GroupNames} \cup
              {<<p[1], p[2]>> : p \in GroupNames \X GroupNames}

\* Insertion orders of the member Sets: the permutations of the peer ids.
MemberOrders == {q \in [1..MaxClients -> ClientIds] : \A i, j \in 1..MaxClients : q[i] = q[j] => i = j}

\* fetchByGroup(groupList, event, data, {hasReply, maxWait})
FetchByGroup(groupList, order, hasReply) ==
    /\ hasReply =>
          Len(collectIds(Cur, groupList, 1, order, <<>>)) <= MaxFetchIds + 1 - nextFetchId
    /\ Install(fetchByGroup(Cur, groupList, order, hasReply, DefaultMaxWait))
    /\ last' = [op |-> "fetchByGroup", id |-> 0, group |-> "", groupList |-> groupList]
    /\ UNCHANGED <<nextClientId, connectCalls, disconnectCalls>>


\* wss.on('connection') with the application's onConnect callback.
ConnectionWith(b) ==
    /\ nextClientId <= MaxClients
    /\ Install(connection(Cur, nextClientId, b))
    /\ nextClientId' = nextClientId + 1
    /\ connectCalls' = [connectCalls EXCEPT ![nextClientId] = @ + 1]
    /\ last' = [op |-> "connection", id |-> nextClientId, group |-> "", onConnect |-> b]
    /\ UNCHANGED disconnectCalls


\* ---------------------------------------------------------- client actions
ServerVars == <<clients, wsState, groups, pendingFetches, clientPendingFetches, timers,
                promise, calls, ret, sent, nextClientId, nextFetchId, thrown,
                connectCalls, disconnectCalls, endpoint, middlewares, eventHandlers,
                run, earlier, clientReady, rejection>>

\* setConfig({maxReconnectCount}), called before the first connect().
SetConfig(n) ==
    /\ client.nextSocket = 1
    /\ client.maxReconnectCount = DefaultMaxReconnectCount
    /\ client' = [ClientCur EXCEPT !.maxReconnectCount = n]
    /\ last' = Op("setConfig", n, "")
    /\ UNCHANGED <<attempts, ServerVars>>

\* connect(url)
Connect ==
    /\ client.nextSocket <= MaxSockets
    /\ client' = connect(ClientCur)
    /\ attempts' = [attempts EXCEPT
                       !.closedByApp = IF client.ws # 0 /\ client.status # "disconnected"
                                       THEN @ \cup {client.ws} ELSE @,
                       !.consecutive = 0,
                       !.closed = FALSE]
    /\ last' = Op("connect", client.nextSocket, "")
    /\ UNCHANGED ServerVars

\* close()
ClientClose ==
    /\ client' = clientClose(ClientCur)
    /\ attempts' = [attempts EXCEPT
                       !.closedByApp = IF client.ws # 0 THEN @ \cup {client.ws} ELSE @,
                       !.closed = TRUE]
    /\ last' = Op("clientClose", client.ws, "")
    /\ UNCHANGED ServerVars

\* A retry timer fires.
RetryTimer(t) ==
    /\ t \in DOMAIN client.timers
    /\ (client.shouldReconnect /\ client.status = "disconnected") =>
           client.nextSocket <= MaxSockets
    /\ client' = retryTimer([ClientCur EXCEPT !.timers = MapDel(@, t)])
    /\ last' = [op |-> "retryTimer", id |-> t, group |-> "", delay |-> client.timers[t]]
    /\ UNCHANGED <<attempts, ServerVars>>

\* The connect timeout fires.
ConnectTimeout ==
    /\ client.connectTimeout = "armed"
    /\ client' = connectTimer([ClientCur EXCEPT !.connectTimeout = "fired"])
    /\ last' = Op("connectTimeout", client.ws, "")
    /\ UNCHANGED <<attempts, ServerVars>>

\* The opening handshake of socket k succeeds: readyState becomes OPEN and
\* 'open' is dispatched.
SocketOpened(k) ==
    /\ client.readyState[k] = "connecting"
    /\ client' = onOpen([ClientCur EXCEPT !.readyState[k] = "open", !.established[k] = TRUE])
    /\ attempts' = [attempts EXCEPT !.consecutive = 0]
    /\ last' = Op("open", k, "")
    /\ UNCHANGED ServerVars

\* The peer starts the closing handshake of socket k: readyState becomes
\* CLOSING, no listener runs.
SocketClosing(k) ==
    /\ client.readyState[k] = "open"
    /\ client' = [ClientCur EXCEPT !.readyState[k] = "closing"]
    /\ last' = Op("closing", k, "")
    /\ UNCHANGED <<attempts, ServerVars>>

\* The connection of socket k is closed: readyState becomes CLOSED and, in
\* one turn of the event loop, 'error' is dispatched if the connection failed
\* (always so when it was never established) and then 'close'.
SocketClosed(k, failed) ==
    /\ client.readyState[k] \in {"connecting", "open", "closing"}
    /\ ~client.established[k] => failed
    /\ LET c1 == [ClientCur EXCEPT !.readyState[k] = "closed"]
       IN client' = onSocketClose(IF failed THEN onSocketError(c1) ELSE c1)
    /\ attempts' = IF ~client.established[k] /\ k \notin attempts.closedByApp
                   THEN [attempts EXCEPT !.failed = @ \cup {k}, !.consecutive = @ + 1]
                   ELSE attempts
    /\ last' = [op |-> "closed", id |-> k, group |-> "", failed |-> failed]
    /\ UNCHANGED ServerVars

\* fetch(event, data, {hasReply})
ClientFetch(hasReply) ==
    /\ hasReply => client.nextFetchId <= MaxFetchIds
    /\ client' = clientFetch(ClientCur, hasReply)
    /\ last' = [op |-> "clientFetch", id |-> client.nextFetchId, group |-> "", hasReply |-> hasReply]
    /\ UNCHANGED <<attempts, ServerVars>>

\* The message listener of an open socket with a Reply envelope.
ClientOnReply(fetchId) ==
    /\ \E k \in SocketIds : client.readyState[k] = "open"
    /\ client' = clientReply(ClientCur, fetchId)
    /\ last' = Op("clientReply", fetchId, "")
    /\ UNCHANGED <<attempts, ServerVars>>

\* The client's message listener with each envelope of a sequence of Reply
\* envelopes, in order.
RECURSIVE clientDeliver(_, _, _)
clientDeliver(c, q, i) ==
    IF i > Len(q) THEN c ELSE clientDeliver(clientReply(c, q[i].fetchId), q, i + 1)

\* The frames of a request that the server does not accept: larger than
\* maxMessageSize, or text that JSON.parse rejects.
RejectedFrames(f) ==
    {Raw("big", "value", "event", "ev", f, ""), Raw("ok", "garbage", "event", "ev", f, "")}

\* The server, with this client as its open connection 1, handles the frame
\* of the outstanding request f and the client receives what it sends back.
ServerRejects(f, raw) ==
    /\ f \in client.pendingFetches \ attempts.rejected
    /\ client.ws # 0
    /\ client.readyState[client.ws] = "open"
    /\ LET peer == [Cur EXCEPT !.clients = MapPut(EmptyMap, 1, <<>>), !.wsState[1] = "open"]
           out == handleMessage(peer, 1, raw).sent
       IN /\ client' = clientDeliver(ClientCur, out, 1)
          /\ last' = [op |-> "rejected", id |-> f, group |-> "", raw |-> raw, out |-> out]
    /\ attempts' = [attempts EXCEPT !.rejected = @ \cup {f}]
    /\ UNCHANGED ServerVars

\* A Reply envelope for a request the server accepted.
ServerReplies(fetchId) ==
    /\ fetchId \notin attempts.rejected
    /\ ClientOnReply(fetchId)

\* The deadline of a client fetch fires.
ClientTimeout(fetchId) ==
    /\ fetchId \in client.pendingFetches
    /\ client' = clientFetchTimeout(ClientCur, fetchId, DefaultMaxWait)
    /\ last' = Op("clientTimeout", fetchId, "")
    /\ UNCHANGED <<attempts, ServerVars>>

\* Connection lifecycle: accept, transport events, close()/closeAll().
Lifecycle ==
    \/ Connection
    \/ \E c \in ClientIds : TransportClosing(c)
    \/ \E c \in ClientIds : OnClose(c)
    \/ \E c \in ClientIds : OnError(c)
    \/ \E ids \in TargetLists : Close(ids)
    \/ CloseAll

\* The fetch engine and its pending-request tracker.
Tracker ==
    \/ \E c \in ClientIds, f \in {NoFetchId} \cup FetchIds, b \in Bodies : OnReply(c, f, b)
    \/ \E f \in FetchIds : Timeout(f)
    \/ \E ids \in TargetLists, w \in MaxWaits : Fetch(ids, w)
    \/ \E ids \in TargetLists : Send(ids)

\* The group registry.
Registry ==
    \/ \E g \in GroupNames, id \in ClientIds : AddGroup(g, id)
    \/ \E g \in GroupNames, id \in ClientIds : RemoveGroup(g, id)

\* The whole server, every operation interleaved, for behaviours of at most
\* MaxSteps steps.
Next == steps < MaxSteps /\ steps' = steps + 1 /\ (Lifecycle \/ Tracker \/ Registry)
Spec == Init /\ [][Next]_vars

\* Group-addressed fetches over connections, transport events and the group
\* registry, for behaviours of at most MaxSteps steps.
ByGroup ==
    \/ Connection
    \/ \E c \in ClientIds : TransportClosing(c)
    \/ \E c \in ClientIds : OnClose(c)
    \/ Registry
    \/ \E gl \in GroupLists, o \in MemberOrders, h \in BOOLEAN : FetchByGroup(gl, o, h)
NextByGroup == steps < MaxSteps /\ steps' = steps + 1 /\ ByGroup
SpecByGroup == Init /\ [][NextByGroup]_vars

\* The dispatch pipeline of one endpoint, explored exhaustively: the server
\* with its first connection, or the client with its socket.
Pipeline ==
    \/ endpoint = "server" /\ nextClientId = 1 /\ Connection
    \/ \E c \in ClientIds : endpoint = "server" /\ TransportClosing(c)
    \/ \E c \in ClientIds : endpoint = "server" /\ OnClose(c)
    \/ \E c \in ClientIds : endpoint = "server" /\ Close(<<c>>)
    \/ \E b \in Behaviours : Use(b)
    \/ \E e \in HandledEvents, b \in Behaviours : On(e, b)
    \/ \E c \in ClientIds, raw \in {r \in Raws : IsEvent(r)} : OnMessage(c, raw)
    \/ \E e \in EventNames, f \in {NoFetchId, PeerFetchId} : ClientOnEvent(e, f)
    \/ Resume
    \/ \E ready \in BOOLEAN : ClientSocket(ready)
NextPipeline == Pipeline /\ UNCHANGED steps
InitPipeline == Constructed /\ endpoint \in Endpoints
SpecPipeline == InitPipeline /\ [][NextPipeline]_vars

\* Two Event envelopes in flight on one connection of either endpoint, for
\* behaviours of at most MaxOverlapSteps steps.
NextOverlap ==
    /\ steps < MaxOverlapSteps /\ steps' = steps + 1
    /\ \/ endpoint = "server" /\ nextClientId = 1 /\ Connection
       \/ \E b \in Behaviours : Use(b)
       \/ \E e \in HandledEvents, b \in Behaviours : On(e, b)
       \/ \E c \in ClientIds, raw \in {r \in Raws : IsEvent(r)} : OnMessage(c, raw)
       \/ \E e \in EventNames, f \in {NoFetchId, PeerFetchId} : ClientOnEvent(e, f)
       \/ \E c \in {0} \cup ClientIds, e \in EventNames, f \in {NoFetchId, PeerFetchId} :
              Overtake(c, e, f)
       \/ Resume
       \/ ResumeEarlier
       \/ \E ready \in BOOLEAN : ClientSocket(ready)
SpecOverlap == InitPipeline /\ [][NextOverlap]_vars

\* The server's inbound entry point with every kind of frame, next to the
\* fetch engine, for behaviours of at most MaxSteps steps.
Inbound ==
    \/ Connection
    \/ \E c \in ClientIds : TransportClosing(c)
    \/ \E c \in ClientIds : Close(<<c>>)
    \/ \E ids \in {<<a>> : a \in ClientIds} : Fetch(ids, DefaultMaxWait)
    \/ \E b \in Behaviours : Use(b)
    \/ \E e \in HandledEvents, b \in Behaviours : On(e, b)
    \/ \E c \in ClientIds, raw \in Raws : OnMessage(c, raw)
    \/ Resume
NextInbound == steps < MaxSteps /\ steps' = steps + 1 /\ Inbound
SpecInbound == Init /\ [][NextInbound]_vars


\* Accepting connections with either onConnect callback, next to transport
\* events, close() and event traffic, explored exhaustively.
Accept ==
    \/ \E b \in OnConnects : ConnectionWith(b)
    \/ \E c \in ClientIds : TransportClosing(c)
    \/ \E c \in ClientIds : OnClose(c)
    \/ \E c \in ClientIds : OnError(c)
    \/ \E c \in ClientIds : Close(<<c>>)
    \/ \E ids \in TargetLists : Send(ids)
    \/ \E g \in GroupNames, id \in ClientIds : AddGroup(g, id)
NextAccept == Accept /\ UNCHANGED steps
SpecAccept == Init /\ [][NextAccept]_vars


\* The client's connection state machine: the application's calls, the
\* timers and the events of every socket, for behaviours of at most
\* MaxClientSteps steps.
Connecting ==
    \/ \E n \in ReconnectCounts : SetConfig(n)
    \/ Connect
    \/ ClientClose
    \/ \E t \in 1..(3 * MaxSockets) : RetryTimer(t)
    \/ ConnectTimeout
    \/ \E k \in SocketIds : SocketOpened(k)
    \/ \E k \in SocketIds : SocketClosing(k)
    \/ \E k \in SocketIds, failed \in BOOLEAN : SocketClosed(k, failed)
NextClient == steps < MaxClientSteps /\ steps' = steps + 1 /\ Connecting
InitClient == Constructed /\ endpoint = "client"
SpecClient == InitClient /\ [][NextClient]_vars

\* The client's fetch engine next to its connection state machine, for
\* behaviours of at most MaxSteps steps.
ClientFetching ==
    \/ Connecting
    \/ \E h \in BOOLEAN : ClientFetch(h)
    \/ \E f \in {NoFetchId} \cup FetchIds : ClientOnReply(f)
    \/ \E f \in FetchIds : ClientTimeout(f)
NextClientFetch == steps < MaxSteps /\ steps' = steps + 1 /\ ClientFetching
SpecClientFetch == InitClient /\ [][NextClientFetch]_vars

\* The client's requests against a server that rejects some of their frames,
\* for behaviours of at most MaxSteps steps.
NextClientRejected ==
    /\ steps < MaxSteps /\ steps' = steps + 1
    /\ \/ Connect
       \/ ClientClose
       \/ \E k \in SocketIds : SocketOpened(k)
       \/ \E k \in SocketIds, failed \in BOOLEAN : SocketClosed(k, failed)
       \/ ClientFetch(TRUE)
       \/ \E f \in FetchIds : \E raw \in RejectedFrames(f) : ServerRejects(f, raw)
       \/ \E f \in {NoFetchId} \cup FetchIds : ServerReplies(f)
       \/ \E f \in FetchIds : ClientTimeout(f)
SpecClientRejected == InitClient /\ [][NextClientRejected]_vars

\* Requests with hasReply = true on either endpoint, for behaviours of at most
\* MaxRequestSteps application and transport steps; the deadline timers of fetch
\* (setTimeout(..., maxWait)) are outside that budget and fire whenever armed:
\* the event loop runs every timer that is due.
Requests ==
    \/ endpoint = "server" /\ Connection
    \/ \E c \in ClientIds : endpoint = "server" /\ TransportClosing(c)
    \/ \E c \in ClientIds : endpoint = "server" /\ OnClose(c)
    \/ \E c \in ClientIds : endpoint = "server" /\ Fetch(<<c>>, DefaultMaxWait)
    \/ \E c \in ClientIds, f \in FetchIds : endpoint = "server" /\ OnReply(c, f, "r1")
    \/ endpoint = "client" /\ Connect
    \/ endpoint = "client" /\ ClientClose
    \/ \E k \in SocketIds : endpoint = "client" /\ SocketOpened(k)
    \/ \E k \in SocketIds : endpoint = "client" /\ SocketClosing(k)
    \/ \E k \in SocketIds, failed \in BOOLEAN : endpoint = "client" /\ SocketClosed(k, failed)
    \/ endpoint = "client" /\ ClientFetch(TRUE)
    \/ \E f \in FetchIds : endpoint = "client" /\ ClientOnReply(f)
Deadline(f) ==
    /\ UNCHANGED steps
    /\ \/ endpoint = "server" /\ Timeout(f)
       \/ endpoint = "client" /\ ClientTimeout(f)
NextRequests ==
    \/ steps < MaxRequestSteps /\ steps' = steps + 1 /\ Requests
    \/ \E f \in FetchIds : Deadline(f)
InitRequests == Constructed /\ endpoint \in Endpoints
SpecRequests ==
    InitRequests /\ [][NextRequests]_vars /\ \A f \in FetchIds : WF_vars(Deadline(f))

\* Connections and the group registry, explored exhaustively.
NextGroups == (Lifecycle \/ Registry) /\ UNCHANGED steps
SpecGroups == Init /\ [][NextGroups]_vars



\* ------------------------------------------------------------ application close
\* close(ids), the ids kept for the step's record.
CloseIds(ids) ==
    /\ Install(close(Cur, ids, 1))
    /\ last' = [op |-> "close", id |-> 0, group |-> "", ids |-> ids]
    /\ UNCHANGED <<nextClientId, connectCalls, disconnectCalls>>

\* closeByGroups(groups)
CloseByGroups(groupList, order) ==
    /\ Install(closeByGroups(Cur, groupList, order))
    /\ last' = [op |-> "closeByGroups", id |-> 0, group |-> "", groupList |-> groupList,
                existing |-> SeqRange(groupList) \cap DOMAIN groups]
    /\ UNCHANGED <<nextClientId, connectCalls, disconnectCalls>>

\* Peers that connect, join and leave groups and are sent requests, and the
\* application closing them by id, by group or all at once, for behaviours of
\* at most MaxSteps steps.
NextClosing ==
    /\ steps < MaxSteps /\ steps' = steps + 1
    /\ \/ Connection
       \/ Registry
       \/ \E ids \in TargetLists : Fetch(ids, DefaultMaxWait)
       \/ \E ids \in TargetLists : CloseIds(ids)
       \/ \E gl \in GroupLists, o \in MemberOrders : CloseByGroups(gl, o)
       \/ CloseAll
SpecClosing == Init /\ [][NextClosing]_vars


\* Group-addressed requests and their replies: peers connect and join groups,
\* fetchByGroup is called with hasReply = true, and the members answer, for
\* behaviours of at most MaxSteps steps.
NextGroupReplies ==
    /\ steps < MaxSteps /\ steps' = steps + 1
    /\ \/ Connection
       \/ \E g \in GroupNames, id \in ClientIds : AddGroup(g, id)
       \/ \E gl \in GroupLists, o \in MemberOrders : FetchByGroup(gl, o, TRUE)
       \/ \E c \in ClientIds, f \in FetchIds, b \in Bodies : OnReply(c, f, b)
SpecGroupReplies == Init /\ [][NextGroupReplies]_vars

\* ===================================================================== claims
TeardownOps == {"onclose", "onerror", "close", "closeAll"}
Owner(f) == pendingFetches[f].clientId
Settled(f) == promise[f].st \in {"resolved", "rejected"}

\* C1: every pending request registered by fetch is settled exactly once, by
\* the first of {reply, deadline expiry, disconnect of its owner}; at that
\* moment it leaves the tracker; a later reply or timeout for that id, or a
\* reply for an id that is not outstanding, changes nothing and raises no
\* error.
C1_SettledExactlyOnce ==
    [][ /\ \A f \in FetchIds :
            \* in the tracker exactly while its promise is pending
            /\ (f \in DOMAIN pendingFetches') <=> (promise'[f].st = "pending")
            \* the continuations are invoked once, when it settles
            /\ promise'[f].n = (IF promise'[f].st \in {"resolved", "rejected"} THEN 1 ELSE 0)
            \* the first event wins and removes it
            /\ (promise[f].st = "pending" /\ promise'[f].st # "pending") =>
                  /\ f \notin DOMAIN pendingFetches'
                  /\ f \notin DOMAIN timers'
                  /\ \A c \in DOMAIN clientPendingFetches' : f \notin clientPendingFetches'[c]
                  /\ \/ last'.op = "reply" /\ promise'[f].st = "resolved"
                     \/ last'.op = "timeout" /\ promise'[f].st = "rejected"
                                             /\ promise'[f].err = "timeout"
                     \/ last'.op \in TeardownOps /\ promise'[f].st = "rejected"
                                                 /\ promise'[f].err = "disconnected"
                                                 /\ Owner(f) \notin DOMAIN clients'
            \* once settled, nothing touches it again
            /\ Settled(f) => promise'[f] = promise[f]
        \* a reply that matches no outstanding request is a no-op
        /\ (last'.op = "reply" /\ promise' = promise) =>
              /\ pendingFetches' = pendingFetches
              /\ clientPendingFetches' = clientPendingFetches
              /\ timers' = timers
              /\ calls' = calls
              /\ clients' = clients
              /\ groups' = groups
        /\ last'.op \in {"reply", "timeout"} => thrown' = "none"
      ]_vars

\* C1 witness: a request has timed out and a reply arrived afterwards, when
\* nothing was outstanding any more.
C1_Witness ==
    /\ last.op = "reply"
    /\ pendingFetches = EmptyMap
    /\ \E f \in FetchIds : promise[f].st = "rejected" /\ promise[f].err = "timeout"
    /\ \A f \in FetchIds : promise[f].st # "resolved"

\* C2: a fetch with hasReply = true and two or more targets settles only after
\* every per-target outcome has settled; a failure of one target does not
\* settle the overall call early.
C2_SettlesAfterEveryTarget ==
    \A k \in DOMAIN calls :
        (Len(calls[k].slots) >= 2 /\ calls[k].result.st # "pending") =>
            \A i \in 1..Len(calls[k].slots) :
                SlotOutcome(Cur, calls[k].slots[i]).st # "pending"

\* C3: fetch([a, b]) with a live and replying and b not live resolves, with
\* the ordered pair <<a's reply, 'not found' failure>> as its result.
C3_MixedTargetsResolve ==
    \A k \in DOMAIN calls :
        LET c == calls[k] IN
        ( /\ Len(c.slots) = 2
          /\ c.slots[1].fid # NoFetchId
          /\ promise[c.slots[1].fid].st = "resolved"
          /\ c.slots[2].fid = NoFetchId ) =>
            /\ c.result.st = "resolved"
            /\ c.result.shape = "list"
            /\ Len(c.result.value) = 2
            /\ c.result.value[1] = promise[c.slots[1].fid].body

\* C4: a fetch with hasReply = true and exactly one target yields that
\* target's single outcome, not a collection; for a target outside the live
\* set the outcome is an immediate 'not found' failure, nothing is sent and
\* nothing is registered.
C4_SingleTarget ==
    [][ /\ (last'.op = "fetch" /\ Len(ret'.ids) = 1) =>
            IF ret'.ids[1] \notin DOMAIN clients
            THEN /\ ret'.result.st = "rejected"
                 /\ ret'.result.err = "not found"
                 /\ ret'.result.arg = ret'.ids[1]
                 /\ sent' = <<>>
                 /\ pendingFetches' = pendingFetches
                 /\ clientPendingFetches' = clientPendingFetches
                 /\ timers' = timers
                 /\ promise' = promise
                 /\ nextFetchId' = nextFetchId
            ELSE /\ ret'.result.st = "pending"
                 /\ nextFetchId \in DOMAIN pendingFetches'
        /\ \A k \in DOMAIN calls' :
            Len(calls'[k].slots) = 1 =>
                LET p == promise'[calls'[k].slots[1].fid]
                    r == calls'[k].result
                IN  /\ r.st = p.st
                    /\ r.err = p.err
                    /\ r.arg = p.arg
                    /\ r.shape = (IF p.st = "resolved" THEN "single" ELSE "none")
                    /\ r.value = (IF p.st = "resolved" THEN <<p.body>> ELSE <<>>)
      ]_vars

\* C4 witness: a single-target fetch has just failed with 'not found'.
C4_Witness ==
    /\ last.op = "fetch"
    /\ Len(ret.ids) = 1
    /\ ret.result.err = "not found"


\* The Event envelopes a fire-and-forget fetch emits for the targets `to`.
EventsFor(to) ==
    [i \in 1..Len(to) |-> Envelope(to[i], "event", "ev", NoFetchId, DefaultCode, "d")]

TrackerUnchanged ==
    /\ pendingFetches' = pendingFetches
    /\ clientPendingFetches' = clientPendingFetches
    /\ timers' = timers
    /\ promise' = promise
    /\ calls' = calls
    /\ nextFetchId' = nextFetchId

\* C5 (as stated): a fetch with hasReply = false sends an Event envelope
\* without correlation id to every target in the live set, skips the others,
\* returns at once with no value, never raises, and leaves the tracker and
\* its reverse index unchanged.
C5_SendToEveryLiveTarget ==
    [][ last'.op = "send" =>
            /\ sent' = EventsFor(SelectSeq(ret'.ids, LAMBDA x : x \in DOMAIN clients))
            /\ ret'.result = UndefinedResult
            /\ thrown' = "none"
            /\ TrackerUnchanged
      ]_vars

\* C5 (amended): a fetch with hasReply = false sends an Event envelope without
\* correlation id to every target that is in the live set and whose socket is
\* open; every other target is skipped silently; the call returns at once
\* with no value and never raises (nor does a teardown that follows), and the
\* tracker and its reverse index are unchanged.
C5_SendToEveryOpenLiveTarget ==
    [][ /\ last'.op = "send" =>
            /\ sent' = EventsFor(SelectSeq(ret'.ids,
                          LAMBDA x : x \in DOMAIN clients /\ wsState[x] = "open"))
            /\ ret'.result = UndefinedResult
            /\ thrown' = "none"
            /\ TrackerUnchanged
        /\ (last.op = "send" /\ last'.op \in TeardownOps) => thrown' = "none"
      ]_vars

\* C5 witness: of two targets of a fire-and-forget fetch, one got the event
\* and the other was skipped.
C5_Witness ==
    /\ last.op = "send"
    /\ Len(ret.ids) = 2
    /\ Len(sent) = 1
    /\ sent[1].fetchId = NoFetchId

\* C6: when the maxWait deadline of a pending request fires, the request is
\* removed from the primary map and from its owner's reverse-index set, and
\* its promise is rejected with a timeout error carrying the maxWait the
\* call was configured with.
C6_DeadlineExpiry ==
    [][ last'.op = "timeout" =>
            \E f \in DOMAIN timers :
                /\ f \notin DOMAIN timers'
                /\ f \in DOMAIN pendingFetches
                /\ pendingFetches' = MapDel(pendingFetches, f)
                /\ \A c \in DOMAIN clientPendingFetches' : f \notin clientPendingFetches'[c]
                /\ \A c \in DOMAIN clientPendingFetches' :
                       clientPendingFetches'[c] = clientPendingFetches[c] \ {f}
                /\ promise[f].st = "pending"
                /\ promise'[f].st = "rejected"
                /\ promise'[f].err = "timeout"
                /\ promise'[f].arg = calls[promise[f].call].maxWait
                /\ \A g \in FetchIds \ {f} : promise'[g] = promise[g]
      ]_vars

\* C6 witness: a request made with a per-call maxWait has just expired.
C6_Witness ==
    /\ last.op = "timeout"
    /\ \E f \in FetchIds :
          /\ promise[f].st = "rejected"
          /\ promise[f].err = "timeout"
          /\ promise[f].arg # DefaultMaxWait

\* C7: a teardown of a peer (close or error event, close(), closeAll())
\* rejects, within that step, every pending request the peer owns with a
\* disconnected error; afterwards the tracker and the reverse index hold
\* nothing for the peer, the peer is in no group and not in the live set;
\* requests owned by peers that stay live are untouched.
C7_Teardown ==
    [][ /\ \A c \in DOMAIN clients :
            c \notin DOMAIN clients' =>
                /\ last'.op \in TeardownOps
                /\ \A f \in DOMAIN pendingFetches :
                       Owner(f) = c =>
                           /\ promise'[f].st = "rejected"
                           /\ promise'[f].err = "disconnected"
                /\ \A f \in DOMAIN pendingFetches' : pendingFetches'[f].clientId # c
                /\ c \notin DOMAIN clientPendingFetches'
                /\ \A g \in DOMAIN groups' : c \notin groups'[g]
        /\ \A c \in DOMAIN clients :
            (last'.op \in {"onclose", "onerror"} /\ last'.id = c) => c \notin DOMAIN clients'
        /\ last'.op = "closeAll" => clients' = EmptyMap
        /\ last'.op \in TeardownOps =>
            \A f \in DOMAIN pendingFetches :
                Owner(f) \in DOMAIN clients' =>
                    /\ f \in DOMAIN pendingFetches'
                    /\ pendingFetches'[f] = pendingFetches[f]
                    /\ f \in clientPendingFetches'[Owner(f)]
                    /\ f \in DOMAIN timers'
                    /\ promise'[f] = promise[f]
      ]_vars

\* C7 witness: a peer that owned a pending request has just been torn down
\* while another peer, member of a group, still has a request pending.
C7_Witness ==
    /\ last.op \in TeardownOps
    /\ \E f \in FetchIds : promise[f].st = "rejected" /\ promise[f].err = "disconnected"
    /\ \E f \in DOMAIN pendingFetches :
          \E g \in DOMAIN groups : pendingFetches[f].clientId \in groups[g]

\* C8: for every live peer p and group name g, p is in the member set of g if
\* and only if g is in p's own group list.
C8_GroupIndexesAgree ==
    \A p \in DOMAIN clients : \A g \in GroupNames :
        (g \in DOMAIN groups /\ p \in groups[g]) <=> (g \in SeqRange(clients[p]))

\* C8 witness: two live peers with different memberships, after a removal.
C8_Witness ==
    /\ last.op = "removeGroup"
    /\ \E p, q \in DOMAIN clients : \E g \in DOMAIN groups :
          p \in groups[g] /\ q \notin groups[g] /\ Len(clients[p]) = 2

\* C9: the registry never holds a group with an empty member set; a
\* removeGroup(g, p) that takes the only member out of g deletes g and takes
\* g out of p's group list.
C9_NoEmptyGroup ==
    [][ /\ \A g \in DOMAIN groups' : groups'[g] # {}
        /\ \A g \in DOMAIN groups :
            (last'.op = "removeGroup" /\ last'.group = g /\ groups[g] = {last'.id}) =>
                /\ g \notin DOMAIN groups'
                /\ g \notin SeqRange(clients'[last'.id])
      ]_vars

\* C9 witness: a peer has just left a group that no longer exists, and is
\* still a member of another one.
C9_Witness ==
    /\ last.op = "removeGroup"
    /\ last.id \in DOMAIN clients
    /\ last.group \notin DOMAIN groups
    /\ Len(clients[last.id]) = 1

\* C10: addGroup(group, id) with an id outside the live set fails with a
\* peer-not-found error and changes neither the registry nor any peer's
\* group list.
C10_AddGroupUnknownPeer ==
    [][ (last'.op = "addGroup" /\ last'.id \notin DOMAIN clients) =>
            /\ thrown' = "Client not found"
            /\ groups' = groups
            /\ clients' = clients
      ]_vars

\* C10 witness: an addGroup has just failed while a group exists.
C10_Witness ==
    /\ last.op = "addGroup"
    /\ thrown = "Client not found"
    /\ last.id \notin DOMAIN clients
    /\ groups # EmptyMap

MembersOf(g) == IF g \in DOMAIN groups THEN groups[g] ELSE {}
NoDuplicates(q) == \A i, j \in 1..Len(q) : q[i] = q[j] => i = j

\* C11: addGroup is idempotent and order-independent: joining the same
\* (group, peer) twice leaves the state equal to joining once, with no
\* duplicate in the peer's group list, and after joining p1 and p2 to g in
\* either order the member set of g is exactly the old one plus {p1, p2}.
C11_AddGroupIdempotent ==
    [][ /\ (last'.op = "addGroup" /\ last'.id \in DOMAIN clients) =>
            /\ thrown' = "none"
            /\ groups'[last'.group] = MembersOf(last'.group) \cup {last'.id}
            /\ \A g \in GroupNames \ {last'.group} :
                   /\ (g \in DOMAIN groups') <=> (g \in DOMAIN groups)
                   /\ g \in DOMAIN groups => groups'[g] = groups[g]
            /\ last'.id \in MembersOf(last'.group) =>
                   /\ groups' = groups
                   /\ clients' = clients
        /\ \A p \in DOMAIN clients' : NoDuplicates(clients'[p])
        /\ \A g \in GroupNames : \A p \in DOMAIN clients :
               LET once == addGroup(Cur, g, p) IN
               /\ addGroup(once, g, p) = once
               /\ \A q \in DOMAIN clients :
                      /\ addGroup(once, g, q).groups[g] = MembersOf(g) \cup {p, q}
                      /\ addGroup(addGroup(Cur, g, q), g, p).groups[g] = MembersOf(g) \cup {p, q}
      ]_vars

\* C11 witness: both peers have been joined to both groups.
C11_Witness ==
    /\ last.op = "addGroup"
    /\ DOMAIN groups = GroupNames
    /\ \A g \in GroupNames : Cardinality(groups[g]) >= 2
    /\ \A p \in DOMAIN clients : Len(clients[p]) = 2

IsMember(g, p) == g \in DOMAIN groups /\ p \in groups[g]

\* C12 (as stated): removeGroup(group, id) called when the peer is not, or no
\* longer, a member of the group changes nothing and raises no error.
C12_RemoveNonMemberSilent ==
    [][ (last'.op = "removeGroup" /\ ~IsMember(last'.group, last'.id)) =>
            /\ thrown' = "none"
            /\ groups' = groups
            /\ clients' = clients
      ]_vars

\* C12 (amended): removeGroup(group, id) for a peer of the live set that is
\* not, or no longer, a member of the group changes nothing and raises no
\* error, a second call in a row included; for an id outside the live set it
\* fails with a peer-not-found error and changes nothing.
C12_RemoveNonMemberLive ==
    [][ /\ (last'.op = "removeGroup" /\ ~IsMember(last'.group, last'.id)) =>
            /\ groups' = groups
            /\ clients' = clients
            /\ thrown' = (IF last'.id \in DOMAIN clients THEN "none" ELSE "Client not found")
        /\ \A g \in GroupNames : \A p \in DOMAIN clients :
               LET once == removeGroup(Cur, g, p) IN
               /\ once.thrown = "none"
               /\ removeGroup(once, g, p) = once
      ]_vars

\* C12 witness: a live peer that is a member of one group has just been
\* removed from another group it is not a member of.
C12_Witness ==
    /\ last.op = "removeGroup"
    /\ last.id \in DOMAIN clients
    /\ thrown = "none"
    /\ ~IsMember(last.group, last.id)
    /\ Len(clients[last.id]) = 1
    /\ \E g \in DOMAIN groups : groups[g] = {last.id}

\* The de-duplicated union of the members of the groups named in gl.
UnionOf(gl) == UNION {MembersOf(gl[i]) : i \in 1..Len(gl)}
EnvelopesTo(p, q) == {i \in 1..Len(q) : q[i].to = p}

\* What C13 says of a fetchByGroup step apart from the number of envelopes.
C13_Common ==
    /\ thrown' = "none"
    /\ SeqRange(ret'.ids) = UnionOf(last'.groupList)
    /\ NoDuplicates(ret'.ids)
    /\ \A i \in 1..Len(sent') :
           /\ sent'[i].to \in UnionOf(last'.groupList)
           /\ sent'[i].type = "event"
    /\ UnionOf(last'.groupList) = {} =>
           /\ ret'.result = EmptyListResult
           /\ sent' = <<>>
           /\ TrackerUnchanged

\* C13 (as stated): fetchByGroup targets the de-duplicated union of the
\* members of all named groups: every member, also one that belongs to
\* several of the named groups, receives exactly one Event envelope, an
\* unknown group name contributes no target and no error, and when the union
\* is empty the result is an empty list and nothing is sent or registered.
C13_OneEnvelopePerMember ==
    [][ last'.op = "fetchByGroup" =>
            /\ C13_Common
            /\ \A p \in UnionOf(last'.groupList) : Cardinality(EnvelopesTo(p, sent')) = 1
      ]_vars

\* C13 (amended): as above, but a member receives exactly one Event envelope
\* if its socket is open and none otherwise; with hasReply = true exactly one
\* pending request is registered for every member in either case.
C13_OneEnvelopePerOpenMember ==
    [][ last'.op = "fetchByGroup" =>
            /\ C13_Common
            /\ \A p \in UnionOf(last'.groupList) :
                   /\ Cardinality(EnvelopesTo(p, sent')) = (IF wsState[p] = "open" THEN 1 ELSE 0)
                   /\ ret'.hasReply =>
                          Cardinality({f \in DOMAIN pendingFetches' \ DOMAIN pendingFetches :
                                          pendingFetches'[f].clientId = p}) = 1
      ]_vars

\* C13 witness: a fetchByGroup over two groups, one of them unknown to the
\* registry or both holding the same peer, has sent exactly one envelope.
C13_Witness ==
    /\ last.op = "fetchByGroup"
    /\ Len(last.groupList) = 2
    /\ last.groupList[1] # last.groupList[2]
    /\ \E p \in DOMAIN clients : Len(clients[p]) = 2
    /\ Len(sent) = 1
    /\ Len(ret.ids) = 1

\* ------------------------------------------------------ pipeline claims
\* A step of the dispatch pipeline: an Event envelope enters it, or the
\* callback it awaits completes.
EnterStep == last'.op = "message" /\ IsEvent(last'.raw)
ResumeStep == last'.op = "resume"
Replies(q) == SelectSeq(q, LAMBDA m : m.type = "reply")
\* Reply envelopes handed to the transport before this step for the
\* envelope this step works on.
SentBefore == IF ResumeStep THEN run.nsent ELSE 0
\* The socket `reply` writes to is open during this step.
SocketOpen == IF endpoint = "server" THEN wsState[run'.conn] = "open" ELSE clientReady
\* The callback a resume step runs.
CurrentCallback == Callbacks(Cur)[run.idx]
NotFound(event) == Message(404, JsNull, <<"No handler for event: ", event>>)
ServerError(phase) ==
    Message(500, JsNull, IF phase = "middleware" THEN "Middleware error" ELSE "Handler error")

\* C14: for each inbound Event envelope at most one Reply envelope is ever
\* sent, on the server and on the client, however often middlewares, handlers
\* and the automatic 404/500 paths invoke reply; every invocation after the
\* first sends nothing and raises nothing.
C14_OneShotReply ==
    [][ (EnterStep \/ ResumeStep) =>
            /\ run'.nsent <= 1
            /\ Len(Replies(sent')) = run'.nsent - SentBefore
            /\ \A i \in 1..Len(sent') :
                   /\ sent'[i].type = "reply"
                   /\ sent'[i].fetchId = run'.fetchId
            /\ (ResumeStep /\ run.replied) => sent' = <<>>
            /\ run'.invoked >= 1 => run'.replied
            /\ (run'.invoked >= 2 /\ run'.nsent = 1) => rejection' = "none" /\ thrown' = "none"
      ]_vars

\* C14 witness: a callback has invoked reply twice for one envelope and one
\* Reply envelope went out.
C14_Witness ==
    /\ last.op = "resume"
    /\ run.invoked = 2
    /\ run.nsent = 1
    /\ Len(sent) = 1

\* reply(data, code?, msg?) as documented: the Message a call stands for.
MessageOf(args) ==
    Message(IF Len(args) >= 2 THEN args[2] ELSE DefaultCode,
            args[1],
            IF Len(args) >= 3 THEN args[3] ELSE "success")

\* C15: reply(data, code?, msg?) sends a Reply envelope whose body is the
\* Message {code, data, msg}, an omitted code or msg taking the value of the
\* active FetchConfig (200 and 'success' by default), and whose correlation id
\* is that of the inbound event.  Stated for the server, for a callback whose
\* first reply call went out on an open socket.
C15_ReplyBodyIsMessage ==
    [][ ( /\ ResumeStep
          /\ endpoint = "server"
          /\ Len(CurrentCallback.calls) >= 1
          /\ Len(sent') = 1 ) =>
            /\ sent'[1].fetchId = run.fetchId
            /\ sent'[1].body = MessageOf(CurrentCallback.calls[1])
      ]_vars

\* The callbacks invoked so far in each phase.
Ran(order, phase) == {i \in 1..Len(order) : order[i][1] = phase}

\* C16: for each inbound Event, middlewares run one at a time in registration
\* order, and only then the handlers registered for that event name, in
\* registration order; once any of them has called reply, no later middleware
\* and no handler is invoked for that envelope.
C16_PipelineOrder ==
    [][ /\ EnterStep => run'.order = <<>>
        /\ ResumeStep =>
            /\ run'.order = Append(run.order, <<run.phase, run.idx>>)
            /\ ~run.replied
            /\ run.invoked = 0
            /\ run.idx = Cardinality(Ran(run.order, run.phase)) + 1
            /\ run.phase = "middleware" => Ran(run.order, "handler") = {}
            /\ run.phase = "handler" =>
                   /\ run.event \in DOMAIN eventHandlers
                   /\ run.idx <= Len(eventHandlers[run.event])
        \* the handlers start only when every registered middleware has run
        /\ ((EnterStep \/ (ResumeStep /\ run.phase = "middleware")) /\ run'.phase = "handler") =>
               Ran(run'.order, "middleware") = 1..Len(middlewares)
        \* after a reply the pipeline is over: nothing is left to be invoked
        /\ ((EnterStep \/ ResumeStep) /\ run'.invoked >= 1) => run'.phase = "done"
        /\ (run.phase = "done" /\ ~EnterStep) => run'.order = run.order
      ]_vars

\* C16 witness: the second of two middlewares replied, and the handler
\* registered for the event was not invoked.
C16_Witness ==
    /\ run.phase = "done"
    /\ run.order = << <<"middleware", 1>>, <<"middleware", 2>> >>
    /\ run.replied
    /\ run.event \in DOMAIN eventHandlers
    /\ Len(middlewares) = 2

\* A resume step in which the callback throws, by itself or out of a reply on
\* a client socket that is not open.
ThrowStep ==
    /\ ResumeStep
    /\ \/ CurrentCallback.throws
       \/ endpoint = "client" /\ ~clientReady /\ Len(CurrentCallback.calls) >= 1
Has500(q) == \E i \in 1..Len(q) : q[i].type = "reply" /\ q[i].body = ServerError(run.phase)

\* What C17 says apart from the 500 reply: the chain is aborted, nothing is
\* thrown to the caller of the API, and the live set, the group registry and
\* the pending tracker are unchanged.
C17_Contained ==
    /\ run'.phase = "done"
    /\ run'.order = Append(run.order, <<run.phase, run.idx>>)
    /\ thrown' = "none"
    /\ clients' = clients
    /\ groups' = groups
    /\ wsState' = wsState
    /\ TrackerUnchanged

\* C17 (as stated): when a middleware or handler throws, a code-500 Reply is
\* sent if and only if no reply was sent before, no further middleware or
\* handler runs, the error does not leave handleMessage, and the live set,
\* group registry and pending tracker are unchanged.
C17_ErrorTo500 ==
    [][ ThrowStep =>
            /\ C17_Contained
            /\ Has500(sent') <=> (run.nsent = 0 /\ ~\E i \in 1..Len(sent') : sent'[i].body # ServerError(run.phase))
            /\ rejection' = "none"
      ]_vars

\* C17 (amended): when a middleware or handler throws, a code-500 Reply is
\* sent if and only if reply was not invoked before and the socket is open;
\* no further middleware or handler runs; the live set, group registry and
\* pending tracker are unchanged; nothing reaches the transport layer: on the
\* server handleMessage returns normally, on the client it rejects only when
\* the 500 could not be written to a socket that is not open, and the message
\* listener catches that rejection.
C17_ErrorTo500IfOpen ==
    [][ ThrowStep =>
            /\ C17_Contained
            /\ Has500(sent') <=> (Len(CurrentCallback.calls) = 0 /\ SocketOpen)
            /\ Has500(sent') => sent' = <<ReplyEnvelope(run.conn, run.fetchId, ServerError(run.phase))>>
            /\ rejection' = (IF endpoint = "client" /\ ~clientReady /\ Len(CurrentCallback.calls) = 0
                             THEN "WebSocket is not connected" ELSE "none")
      ]_vars

\* C17 witness: the first of two middlewares threw, a 500 went out and the
\* pipeline ended there.
C17_Witness ==
    /\ last.op = "resume"
    /\ run.phase = "done"
    /\ Len(middlewares) = 2
    /\ middlewares[1].throws
    /\ run.order = << <<"middleware", 1>> >>
    /\ Len(sent) = 1
    /\ sent[1].body.code = 500

\* A step in which the pipeline runs to its end and no callback invoked for
\* the envelope has replied or thrown.
NoReplyStep ==
    /\ EnterStep \/ ResumeStep
    /\ run'.phase = "done"
    /\ ResumeStep => CurrentCallback = Pass
    /\ ResumeStep => ~run.replied

\* C18 (as stated): an Event whose pipeline completes without any middleware
\* or handler replying receives exactly one code-404 Reply naming the event
\* if the envelope carried a correlation id, and no Reply envelope at all if
\* it carried none.
C18_NotFoundReply ==
    [][ NoReplyStep =>
            sent' = (IF run'.fetchId # NoFetchId
                     THEN <<ReplyEnvelope(run'.conn, run'.fetchId, NotFound(run'.event))>>
                     ELSE <<>>)
      ]_vars

\* C18 (amended): as above, provided the socket is open when the pipeline
\* completes; if it is not, no Reply envelope goes out (on the client the
\* failed send makes handleMessage reject, which the message listener
\* catches).  Without correlation id nothing is sent and nothing fails.
C18_NotFoundReplyIfOpen ==
    [][ NoReplyStep =>
            /\ sent' = (IF run'.fetchId # NoFetchId /\ SocketOpen
                        THEN <<ReplyEnvelope(run'.conn, run'.fetchId, NotFound(run'.event))>>
                        ELSE <<>>)
            /\ run'.nsent = Len(sent')
            /\ rejection' = (IF run'.fetchId # NoFetchId /\ endpoint = "client" /\ ~clientReady
                             THEN "WebSocket is not connected" ELSE "none")
      ]_vars

\* C18 witness: a middleware and a handler ran for an envelope with a
\* correlation id, neither replied, and the 404 went out.
C18_Witness ==
    /\ last.op = "resume"
    /\ run.phase = "done"
    /\ run.order = << <<"middleware", 1>>, <<"handler", 1>> >>
    /\ run.fetchId # NoFetchId
    /\ Len(sent) = 1
    /\ sent[1].body.code = 404

\* A step in which the server receives a frame.
FrameStep == last'.op = "message" /\ endpoint = "server"
TooLarge == Message(413, JsNull, <<"Message too large. Maximum size is ", maxMessageSize, " bytes">>)
BadFormat == Message(400, JsNull, "Invalid message format")
ServerUnchanged ==
    /\ run' = run
    /\ clients' = clients
    /\ groups' = groups
    /\ wsState' = wsState
    /\ middlewares' = middlewares
    /\ eventHandlers' = eventHandlers
    /\ TrackerUnchanged

\* C19 (as stated): a payload larger than maxMessageSize always yields a
\* code-413 reply and is never parsed further: no middleware or handler runs
\* for it and it resolves no pending request, whatever envelope it contains.
C19_SizeGuard ==
    [][ (FrameStep /\ last'.raw.size = "big") =>
            /\ sent' = <<ReplyEnvelope(last'.id, NoFetchId, TooLarge)>>
            /\ ServerUnchanged
            /\ rejection' = "none"
      ]_vars

\* C19 (amended): a payload larger than maxMessageSize yields a code-413
\* reply if the socket it arrived on is still open and nothing otherwise, and
\* is never parsed further: no middleware or handler runs for it and it
\* resolves no pending request, whatever envelope it contains.
C19_SizeGuardIfOpen ==
    [][ (FrameStep /\ last'.raw.size = "big") =>
            /\ sent' = (IF wsState[last'.id] = "open"
                        THEN <<ReplyEnvelope(last'.id, NoFetchId, TooLarge)>>
                        ELSE <<>>)
            /\ ServerUnchanged
            /\ rejection' = "none"
      ]_vars

\* C19 witness: an oversized frame holding a Reply for an outstanding request
\* got the 413 with a middleware registered, and the request is still
\* pending.
C19_Witness ==
    /\ last.op = "message"
    /\ last.raw.size = "big"
    /\ last.raw.type = "reply"
    /\ last.raw.fetchId \in DOMAIN pendingFetches
    /\ middlewares # <<>>
    /\ Len(sent) = 1
    /\ sent[1].body.code = 413

WellFormed(raw) ==
    /\ raw.text = "value"
    /\ raw.type = "reply" \/ (raw.type = "event" /\ raw.event # "")

\* C20: every payload within the size limit that is not a well-formed
\* envelope (unparseable text, a parseable value that is not an envelope
\* object, an unknown type, or type 'event' without an event name) yields a
\* code-400 error reply, is otherwise discarded with no state change, and
\* never makes handleMessage throw.  Stated for frames that arrive on an open
\* socket.
C20_MalformedTo400 ==
    [][ (FrameStep /\ last'.raw.size = "ok" /\ ~WellFormed(last'.raw)
                   /\ wsState[last'.id] = "open") =>
            /\ sent' = <<ReplyEnvelope(last'.id, NoFetchId, BadFormat)>>
            /\ ServerUnchanged
            /\ rejection' = "none"
      ]_vars

\* ------------------------------------------------------ connection claims
AcceptStep == last'.op = "connection"
SystemIds(q) == SelectSeq(q, LAMBDA m : m.event = "_system_id")

\* What C21 says apart from the number of _system_id envelopes: the id is one
\* no live peer has, the connect callback is invoked once and finds the peer
\* in the live set (a callback that closes the peer succeeds in doing so),
\* and no other step sends a _system_id.
C21_Common ==
    /\ AcceptStep =>
          /\ last'.id \notin DOMAIN clients
          /\ wsState[last'.id] = "none"
          /\ connectCalls'[last'.id] = connectCalls[last'.id] + 1
          /\ connectCalls[last'.id] = 0
          /\ last'.onConnect = "return" =>
                 /\ clients' = MapPut(clients, last'.id, <<>>)
                 /\ wsState'[last'.id] = "open"
          /\ last'.onConnect = "close" =>
                 /\ clients' = clients
                 /\ wsState'[last'.id] = "closing"
          /\ \A i \in 1..Len(sent') : sent'[i] = SystemId(last'.id)
    /\ ~AcceptStep => SystemIds(sent') = <<>>

LimitReached ==
    /\ attempts.consecutive >= 1
    /\ attempts.consecutive >= client.maxReconnectCount
    /\ \A k \in SocketIds : client.readyState[k] \in {"none", "closed"}

C23_ExplicitClose ==
    [][ /\ last'.op = "clientClose" =>
              /\ client'.pendingFetches = {}
              /\ \A f \in client.pendingFetches :
                     client'.promise[f] = [st |-> "rejected", err |-> <<"Connection closed">>]
        /\ attempts'.closed =>
              /\ client'.status = "disconnected"
              /\ client'.nextSocket = client.nextSocket
              /\ client'.pendingFetches = {}
      ]_vars

\* Sockets of the client that are connecting or open.
LiveSockets == {k \in SocketIds : client.readyState[k] \in {"connecting", "open"}}

\* C24: at no time does the client hold two sockets of its own that are both
\* connecting or open: a retry timer that fires, an overlapping older retry
\* timer, a close/error notification of a previously replaced socket, or a
\* manual connect() never creates a new socket while another one created by
\* this client is still connecting or open.
C24_NeverDoubleConnect == Cardinality(LiveSockets) <= 1

\* Ready states of a socket whose end the client has not been notified of: the
\* closing handshake runs before the 'close' event is dispatched.
StillOpen == {"open", "closing"}

\* The status changes C25 allows, by the operation that makes them.
StatusChange(from, to, op) ==
    \/ from = to
    \/ from = "disconnected" /\ to = "connecting" /\ op \in {"connect", "retryTimer"}
    \/ from = "connecting" /\ to = "connected" /\ op = "open"
    \/ from \in {"connected", "connecting"} /\ to = "disconnected"
           /\ op \in {"closed", "clientClose", "connectTimeout"}
    \* connect() while not disconnected: close(), then Disconnected -> Connecting
    \/ from = "connected" /\ to = "connecting" /\ op = "connect"

\* C25: the status changes only along Disconnected -> Connecting (explicit
\* connect or retry timer), Connecting -> Connected (socket opened),
\* Connected -> Disconnected and Connecting -> Disconnected (close, error,
\* failed attempt or close()); it never goes from Disconnected directly to
\* Connected, and it is Connected only while the client's current socket is
\* open.
C25_StatusMachine ==
    [][ /\ StatusChange(client.status, client'.status, last'.op)
        /\ client'.status = "connected" =>
               client'.ws # 0 /\ client'.readyState[client'.ws] \in StillOpen
      ]_vars

\* The retry path of one failed attempt, from counter, limit and backoff: below
\* the limit the counter goes up by one and a timer with the backoff delay is
\* armed; at the limit retrying is switched off and no timer is armed.
RetryPathTaken(c, d) ==
    IF c.shouldReconnect /\ c.reconnectCount < c.maxReconnectCount
    THEN /\ d.reconnectCount = c.reconnectCount + 1
         /\ d.reconnectTimer \in DOMAIN d.timers \ DOMAIN c.timers
         /\ d.timers[d.reconnectTimer] = Backoff(d.reconnectCount)
    ELSE /\ ~d.shouldReconnect
         /\ DOMAIN d.timers = DOMAIN c.timers

\* C26: when the connect timeout of an attempt elapses while its socket has
\* not opened, the socket is closed and the retry path (counter, limit and
\* backoff) of a failed attempt is taken; the timeout never fires for an
\* attempt whose socket has opened.
C26_ConnectTimeout ==
    [][ last'.op = "connectTimeout" =>
            /\ client.ws # 0
            /\ ~client.established[client.ws]
            /\ client.readyState[client.ws] = "connecting" =>
                   /\ client'.readyState[client.ws] \notin {"connecting", "open"}
                   /\ RetryPathTaken(client, client')
      ]_vars

\* min(1000 * 2^(k-1), 30000), written by cases.
RetryDelay(k) == IF 2 ^ (k - 1) >= 30 THEN 30000 ELSE 1000 * 2 ^ (k - 1)

\* The retry timers armed by the step.
NewTimers == DOMAIN client'.timers \ DOMAIN client.timers

\* C27: the delay of the k-th consecutive retry (k the retry counter after
\* its increment, k >= 1) is min(1000 * 2^(k-1), 30000): it is at least the
\* delay of every earlier retry of the run and at most the ceiling; the 'open'
\* of a socket resets the counter to zero, so the next retry waits 1000.
C27_Backoff ==
    [][ /\ \A h \in NewTimers :
              LET k == client.reconnectCount + (h - client.nextTimer) + 1
              IN  /\ k >= 1 /\ k <= client'.reconnectCount
                  /\ client'.timers[h] = RetryDelay(k)
                  /\ client'.timers[h] <= 30000
                  /\ \A j \in 1..k : Backoff(j) <= client'.timers[h]
                  /\ client.reconnectCount = 0 /\ h = client.nextTimer
                         => client'.timers[h] = 1000
        /\ last'.op = "open" => client'.reconnectCount = 0
      ]_vars

\* A retry armed with the ceiling delay.
C27_Witness ==
    /\ \E h \in DOMAIN client.timers : client.timers[h] = 30000
    /\ client.reconnectCount >= CeilingCount

\* The connection of the envelope the suspended pipeline works on has been
\* torn down: the server dropped it from the live set, the client's socket is
\* no longer open.
TornDown ==
    IF endpoint = "server" THEN run.conn \notin DOMAIN clients ELSE ~clientReady

\* C28: on either endpoint, a middleware or handler that resumes after its
\* connection was torn down and calls reply sends no envelope, gets no error
\* from reply (its body runs to its end, so all its reply calls are made), no
\* error leaves the pipeline, and the live set, the group registry and the
\* pending tracker do not change.
C28_ReplyAfterTeardown ==
    [][ (/\ ResumeStep
         /\ TornDown
         /\ CurrentCallback.calls # <<>>
         /\ ~CurrentCallback.throws) =>
            /\ sent' = <<>>
            /\ run'.invoked = run.invoked + Len(CurrentCallback.calls)
            /\ rejection' = "none"
            /\ clients' = clients
            /\ groups' = groups
            /\ TrackerUnchanged
      ]_vars

\* C29: when the client's current socket closes or errors without close()
\* having been called, every outstanding pending request of the client is
\* rejected in that step, and the pending map is empty whenever the status
\* is 'disconnected'.
C29_ClientTeardown ==
    [][ /\ (last'.op = "closed" /\ last'.id = client.ws /\ ~attempts.closed) =>
               /\ client'.pendingFetches = {}
               /\ \A f \in client.pendingFetches : client'.promise[f].st = "rejected"
        /\ client'.status = "disconnected" => client'.pendingFetches = {}
      ]_vars

\* A request registered by fetch with hasReply = true is in the tracker of
\* the endpoint; it has left the tracker and its promise is settled.
Outstanding(f) ==
    IF endpoint = "server" THEN f \in DOMAIN pendingFetches ELSE f \in client.pendingFetches
Done(f) ==
    /\ ~Outstanding(f)
    /\ IF endpoint = "server" THEN promise[f].st \in {"resolved", "rejected"}
       ELSE client.promise[f].st \in {"resolved", "rejected"}

\* C30: with deadline timers that fire when due, every request registered by
\* the server's fetch or the client's fetch with hasReply = true eventually
\* leaves the tracker with its promise resolved or rejected, whether or not
\* the peer replies and whether or not the envelope was transmitted.
C30_EveryFetchSettles == \A f \in FetchIds : Outstanding(f) ~> Done(f)

\* C30 witness: a client request that outlived its socket was settled by its
\* deadline.
C30_Witness ==
    /\ endpoint = "client"
    /\ last.op = "clientTimeout"
    /\ client.ws # 0
    /\ client.readyState[client.ws] = "closed"
    /\ client.pendingFetches = {}
    /\ client.promise[last.id].st = "rejected"

\* C31: a message listener starts handleMessage without awaiting it: an Event
\* envelope that arrives while the pipeline of an earlier envelope of the same
\* connection is suspended starts its own pipeline in that step and leaves
\* the earlier one suspended; the later pipeline runs to its end and sends
\* its Reply without the earlier one moving.
C31_NoSerialization ==
    [][ /\ last'.op = "overtake" =>
               /\ earlier' = run
               /\ run'.conn = run.conn
               /\ run'.event = last'.raw.event
               /\ run'.fetchId = last'.raw.fetchId
               /\ run'.phase \in {"middleware", "handler", "done"}
        /\ (last'.op = "resume" /\ earlier.phase \in {"middleware", "handler"}) =>
               /\ earlier' = earlier
               /\ \A i \in 1..Len(sent') : sent'[i].fetchId = run.fetchId
      ]_vars

\* C31 witness: the Reply to the later Event has been sent while the pipeline
\* of the earlier Event of the same connection is still suspended and has
\* sent no Reply.
C31_Witness ==
    /\ last.op = "resume"
    /\ run.phase = "done"
    /\ earlier.phase \in {"middleware", "handler"}
    /\ earlier.conn = run.conn
    /\ earlier.nsent = 0
    /\ Len(sent) = 1
    /\ sent[1].type = "reply"
    /\ sent[1].fetchId = run.fetchId
    /\ run.fetchId # NoFetchId

\* C32: for every accepted connection the disconnect callback is invoked
\* exactly once, with reason 'close' or 'error', after the teardown of the
\* peer: never twice (an error followed by a close), never before the peer
\* left the live set, and once the socket has reported its end (also after
\* close()/closeAll()) it has been invoked.
C32_DisconnectOnce ==
    \A c \in ClientIds :
        /\ Len(disconnectCalls[c]) <= 1
        /\ \A i \in 1..Len(disconnectCalls[c]) : disconnectCalls[c][i] \in {"close", "error"}
        /\ disconnectCalls[c] # <<>> => c \notin DOMAIN clients /\ connectCalls[c] = 1
        /\ wsState[c] \in {"closed", "errored"} => Len(disconnectCalls[c]) = 1

\* C33: in every reachable state of the server a correlation id f is in
\* clientPendingFetches[c] exactly if pendingFetches holds f with owner c; the
\* reverse index holds no empty set and no id that is absent from the primary
\* map.
C33_ReverseIndex ==
    /\ \A c \in DOMAIN clientPendingFetches :
          /\ clientPendingFetches[c] # {}
          /\ \A f \in clientPendingFetches[c] :
                f \in DOMAIN pendingFetches /\ pendingFetches[f].clientId = c
    /\ \A f \in DOMAIN pendingFetches :
          /\ pendingFetches[f].clientId \in DOMAIN clientPendingFetches
          /\ f \in clientPendingFetches[pendingFetches[f].clientId]

\* C33 witness: two requests of one peer were outstanding, and one of them
\* has been settled by its reply.
C33_Witness ==
    /\ last.op = "reply"
    /\ \E c \in DOMAIN clientPendingFetches :
          /\ Cardinality(clientPendingFetches[c]) = 1
          /\ \E f \in FetchIds \ clientPendingFetches[c] :
                promise[f].st = "resolved"

\* C34: in every reachable state of the server the owner of every pending
\* request and every member of every group is a key of the live set, also
\* after addGroup or fetch was called with the id of a peer that has been
\* torn down.
C34_OnlyLivePeers ==
    /\ \A f \in DOMAIN pendingFetches : pendingFetches[f].clientId \in DOMAIN clients
    /\ \A c \in DOMAIN clientPendingFetches : c \in DOMAIN clients
    /\ \A g \in DOMAIN groups : groups[g] \subseteq DOMAIN clients

\* C34 witness: addGroup was called with the id of a torn-down peer while
\* another peer is a member of a group.
C34_Witness ==
    /\ last.op = "addGroup"
    /\ wsState[last.id] = "closed"
    /\ last.id \notin DOMAIN clients
    /\ thrown # "none"
    /\ \E g \in DOMAIN groups : groups[g] # {}

\* C35: a pending request of the server that was sent to peer c is resolved
\* only by a Reply envelope that arrives on c's connection; a Reply with the
\* same correlation id that arrives on the connection of another peer leaves
\* it pending.
C35_ReplyOwnership ==
    [][ \A f \in DOMAIN pendingFetches :
            promise'[f].st = "resolved" =>
                /\ last'.op = "message"
                /\ last'.raw.type = "reply"
                /\ last'.raw.fetchId = f
                /\ last'.id = pendingFetches[f].clientId
      ]_vars

\* C36: one failed or lost connection runs the client's retry path once: the
\* step in which a socket is reported closed, and the connect timeout of an
\* attempt together with the later close of the timed-out socket, raise the
\* retry counter by at most one and arm at most one retry timer; at most one
\* retry timer is pending at any time and the counter never exceeds
\* maxReconnectCount.
C36_RetryOncePerFailure ==
    [][ /\ last'.op = "closed" =>
               /\ client'.reconnectCount <= client.reconnectCount + 1
               /\ Cardinality(NewTimers) <= 1
        /\ (last'.op = "closed" /\ client.connectTimeout = "fired"
                /\ last'.id = client.ws) => client'.reconnectCount = client.reconnectCount
        /\ Cardinality(DOMAIN client'.timers) <= 1
        /\ client'.reconnectCount <= client'.maxReconnectCount
      ]_vars

\* C37: when the client's fetch raises 'WebSocket is not connected', because
\* the status is not 'connected' or because the socket is not open when the
\* envelope is sent, no pending request of that call stays registered (so no
\* timeout fires for it later).
C37_FailedFetchLeavesNoTrace ==
    [][ (last'.op = "clientFetch" /\ client'.thrown = "WebSocket is not connected") =>
            /\ client'.pendingFetches = client.pendingFetches
            /\ \A f \in FetchIds \ client.pendingFetches : client'.promise[f].st # "pending"
      ]_vars

\* C38: the 413 and 400 error replies of the server carry no correlation id
\* and resolve no pending request of the client that receives them: a client
\* request whose frame the server rejected as oversized or malformed is left
\* pending by the error reply and leaves the map only through its own timeout
\* or close() (called by the application, or by connect() on a client that
\* is not disconnected), rejected.
C38_ErrorReplyResolvesNothing ==
    [][ /\ last'.op = "rejected" =>
               /\ Len(last'.out) = 1
               /\ last'.out[1].type = "reply"
               /\ last'.out[1].fetchId = NoFetchId
               /\ last'.out[1].body.code \in {413, 400}
               /\ client'.pendingFetches = client.pendingFetches
               /\ client'.promise = client.promise
        /\ \A f \in attempts.rejected \cap client.pendingFetches :
               f \notin client'.pendingFetches =>
                   /\ \/ /\ last'.op = "clientTimeout"
                         /\ client'.promise[f].err =
                                <<"Request timeout after ", DefaultMaxWait, "ms">>
                      \/ /\ last'.op \in {"clientClose", "connect"}
                         /\ client'.promise[f].err = <<"Connection closed">>
                   /\ client'.promise[f].st = "rejected"
      ]_vars

\* C38 witness: a request whose frame the server rejected has been settled by
\* its own timeout.
C38_Witness ==
    /\ last.op = "clientTimeout"
    /\ last.id \in attempts.rejected
    /\ client.promise[last.id].st = "rejected"
    /\ last.id \notin client.pendingFetches

\* What a teardown of the peers in S leaves behind: the live set, the group
\* registry, the pending-request map and the reverse index without them, the
\* requests they owned rejected with the disconnected error, their sockets
\* closed or closing, and everything that belongs to another peer as it was.
DisconnectedError(f) ==
    promise[f].st = "rejected" /\ promise[f].err = "disconnected" /\ promise[f].n = 1
Named(ids) == SeqRange(ids) \cap DOMAIN clients
TornDownExactly(S) ==
    /\ thrown' = "none"
    /\ clients' = [c \in DOMAIN clients \ S |-> clients[c]]
    /\ groups' = [g \in {h \in DOMAIN groups : groups[h] \ S # {}} |-> groups[g] \ S]
    /\ pendingFetches' = [f \in {h \in DOMAIN pendingFetches : Owner(h) \notin S}
                             |-> pendingFetches[f]]
    /\ clientPendingFetches' = [c \in DOMAIN clientPendingFetches \ S
                                   |-> clientPendingFetches[c]]
    /\ \A f \in DOMAIN pendingFetches :
          IF Owner(f) \in S THEN DisconnectedError(f)' ELSE promise'[f] = promise[f]
    /\ \A c \in ClientIds :
          wsState'[c] = IF c \in S /\ wsState[c] = "open" THEN "closing" ELSE wsState[c]

\* C39: after closeAll() the live set, the group registry, the
\* pending-request map and the reverse index are all empty and every request
\* that was pending has been rejected with the disconnected error; close(ids)
\* and closeByGroups(groups) tear down exactly the named peers (for groups the
\* union of their members) and ignore unknown ids and unknown groups.
C39_CloseTearsDown ==
    [][CASE last'.op = "closeAll" ->
                /\ TornDownExactly(DOMAIN clients)
                /\ clients' = EmptyMap /\ groups' = EmptyMap
                /\ pendingFetches' = EmptyMap /\ clientPendingFetches' = EmptyMap
                /\ \A f \in DOMAIN pendingFetches : DisconnectedError(f)' 
         [] last'.op = "close" -> TornDownExactly(Named(last'.ids))
         [] last'.op = "closeByGroups" -> TornDownExactly(UnionOf(last'.groupList))
         [] OTHER -> TRUE]_vars

\* Two peers are live, one of them in a group and owing a reply, and the
\* group is closed by name together with a group that does not exist: the
\* member is gone with its request rejected, the other peer is still live.
C39_Witness ==
    /\ last.op = "closeByGroups"
    /\ last.existing # {} /\ SeqRange(last.groupList) \ last.existing # {}
    /\ DOMAIN clients # {}
    /\ \E f \in FetchIds : DisconnectedError(f)

\* C40: fetchByGroup with hasReply=true resolves to a list that has exactly
\* one entry per member of the de-duplicated member set, for every member
\* count including one.
C40_ListPerMember ==
    \A k \in DOMAIN calls :
        (calls[k].hasReply /\ calls[k].result.st = "resolved") =>
            /\ calls[k].result.shape = "list"
            /\ Len(calls[k].result.value) = Len(calls[k].ids)
            /\ NoDuplicates(calls[k].ids)

====
